---- MODULE Spec2Model ----
(***************************************************************************)
(* TinkerTasker agent core: the turn loop of ai_core.agent.Agent, the      *)
(* message history it owns, the tool-result adaptation and the event      *)
(* projection of ai_core.schemas.                                          *)
(*                                                                         *)
(* Texts are sequences of chunks.  A text given to strip_thinking is       *)
(* written character by character; a text the core only copies or         *)
(* concatenates (a tool name, an exception message) may be one chunk.      *)
(* Python's None is the option value None; Some(v) is a present value.     *)
(***************************************************************************)
EXTENDS Integers, Sequences, FiniteSets, TLC

\* ------------------------------------------------------------------ bounds

\* The largest configured AgentConfig.max_steps the model draws (0..MaxStepsCfg).
MaxStepsCfg == 2

\* The agent takes turns without limit; the model follows a new turn only while
\* the history holds at most this many messages.  Four messages are what a turn
\* with max_steps = 1 leaves when its one response asked for a tool: the system
\* message, the user message, the assistant message and the tool result.
MaxHistAtStart == 4

\* ----------------------------------------------------------------- options

None == [some |-> FALSE, val |-> <<>>]

Some(v) == [some |-> TRUE, val |-> v]

\* ------------------------------------------------------------------- texts

ThinkOpen == <<"<", "t", "h", "i", "n", "k", ">">>

ThinkClose == <<"<", "/", "t", "h", "i", "n", "k", ">">>

\* The characters str.strip() removes, those str.isspace() holds of: U+0009 to
\* U+000D, U+001C to U+0020, U+0085, U+00A0, and, written by their code points,
\* U+1680, U+2000 to U+200A, U+2028, U+2029, U+202F, U+205F and U+3000.
Whitespace ==
  {" ", "\n", "\t", "\r", "\f", "", "", "", "", "", "", " ",
   "U+1680", "U+2000", "U+2001", "U+2002", "U+2003", "U+2004", "U+2005", "U+2006",
   "U+2007", "U+2008", "U+2009", "U+200A", "U+2028", "U+2029", "U+202F", "U+205F", "U+3000"}

\* s[i..i+Len(m)-1] = m
MatchAt(s, i, m) ==
  /\ i >= 1
  /\ i + Len(m) - 1 <= Len(s)
  /\ \A k \in 1..Len(m) : s[i + k - 1] = m[k]

\* The positions of an end marker at or after position from.
ClosesFrom(s, from) == {j \in from..Len(s) : MatchAt(s, j, ThinkClose)}

Min(S) == CHOOSE x \in S : \A y \in S : x <= y

\* re.sub(r"<think>.*?</think>", "", s, flags=re.DOTALL) scanning from position i:
\* at a start marker with an end marker after it, the shortest such segment is
\* dropped and the scan goes on behind it; otherwise one character is kept.
RECURSIVE ReSubThink(_, _)
ReSubThink(s, i) ==
  IF i > Len(s) THEN <<>>
  ELSE IF MatchAt(s, i, ThinkOpen) /\ ClosesFrom(s, i + Len(ThinkOpen)) # {}
       THEN ReSubThink(s, Min(ClosesFrom(s, i + Len(ThinkOpen))) + Len(ThinkClose))
       ELSE <<s[i]>> \o ReSubThink(s, i + 1)

\* str.strip(): leading and trailing whitespace removed.
RECURSIVE LStrip(_)
LStrip(s) == IF s # <<>> /\ Head(s) \in Whitespace THEN LStrip(Tail(s)) ELSE s

RECURSIVE RStrip(_)
RStrip(s) ==
  IF s # <<>> /\ s[Len(s)] \in Whitespace THEN RStrip(SubSeq(s, 1, Len(s) - 1)) ELSE s

\* Mutant of Strip: only the leading whitespace is removed.
Strip_LeftOnly(s) == LStrip(s)

Strip(s) == RStrip(LStrip(s))

\* strip_thinking(content): None and the empty text are returned as they are.
StripThinking(content) ==
  IF ~content.some \/ content.val = <<>> THEN content
  ELSE Some(Strip(ReSubThink(content.val, 1)))

\* ------------------------------------------------------ tool-call arguments

\* The argument strings the completion backend may send, as JSON token sequences.
ArgsPathDot == <<"{", "\"path\"", ":", "\".\"", "}">>

ArgsEmptyObj == <<"{", "}">>

ArgsBad == <<"{", "\"path\"">>

ArgsList == <<"[", "1", "]">>

JsonStringTokens == {"\"path\"", "\".\"", "\"url\""}

JsonNumberTokens == {"1"}

JsonScalarTokens == JsonStringTokens \union JsonNumberTokens

\* An argument string is its tokens with one space between them.  The offset of
\* token i in that text; i = Len(s) + 1 gives the end of the text.
RECURSIVE CharOffset(_, _)
CharOffset(s, i) ==
  IF i <= 1 THEN 0
  ELSE CharOffset(s, i - 1) + Len(s[i - 1]) + (IF i <= Len(s) THEN 1 ELSE 0)

\* str(e) of the JSONDecodeError raised at token i of s.
JsonErrorText(msg, s, i) ==
  <<msg, ": line 1 column ", ToString(CharOffset(s, i) + 1),
    " (char ", ToString(CharOffset(s, i)), ")">>

\* What the decoder gives from token i on: a value (kind "scalar", "list" or
\* "dict"; val its tokens, with each repeated key of an object written once;
\* pairs the <<key, value>> members of an object in the order of the dict; next
\* the token after the value), or the error it raises.
JsonParsed(kind, val, pairs, next) ==
  [ok |-> TRUE, kind |-> kind, val |-> val, pairs |-> pairs, next |-> next,
   msg |-> <<>>]

JsonRaises(msg, s, i) ==
  [ok |-> FALSE, kind |-> "error", val |-> <<>>, pairs |-> <<>>, next |-> i,
   msg |-> JsonErrorText(msg, s, i)]

\* The tokens of an object with the members pairs.
RECURSIVE JsonDumpMembers(_)
JsonDumpMembers(pairs) ==
  IF pairs = <<>> THEN <<>>
  ELSE <<Head(pairs)[1], ":">> \o Head(pairs)[2]
         \o (IF Len(pairs) = 1 THEN <<>> ELSE <<",">> \o JsonDumpMembers(Tail(pairs)))

\* The decoder's three mutually recursive routines as one: what stands from
\* token i on is read as a value, as the members "key : value , ... }" of an
\* object from the key at token i on (a repeated key stays where it came first,
\* with its last value), or as the elements "value , value ... ]" of an array
\* (val holds their tokens with the commas).
RECURSIVE JsonScan(_, _, _)
JsonScan(what, s, i) ==
  IF what = "members"
  THEN IF i + 1 > Len(s) \/ s[i + 1] # ":"
       THEN JsonRaises("Expecting ':' delimiter", s, i + 1)
       ELSE LET v == JsonScan("value", s, i + 2)
                k == v.next
            IN  IF ~v.ok THEN v
                ELSE IF k > Len(s) THEN JsonRaises("Expecting ',' delimiter", s, k)
                ELSE IF s[k] = "}"
                     THEN JsonParsed("dict", <<>>, <<<<s[i], v.val>>>>, k + 1)
                ELSE IF s[k] # "," THEN JsonRaises("Expecting ',' delimiter", s, k)
                ELSE IF k + 1 > Len(s) \/ s[k + 1] \notin JsonStringTokens
                     THEN JsonRaises("Expecting property name enclosed in double quotes",
                                     s, k + 1)
                ELSE LET rest == JsonScan("members", s, k + 1)
                         again == {n \in 1..Len(rest.pairs) : rest.pairs[n][1] = s[i]}
                     IN  IF ~rest.ok THEN rest
                         ELSE IF again = {}
                              THEN JsonParsed("dict", <<>>,
                                              <<<<s[i], v.val>>>> \o rest.pairs, rest.next)
                              ELSE JsonParsed("dict", <<>>,
                                     <<<<s[i], rest.pairs[CHOOSE n \in again : TRUE][2]>>>>
                                       \o SelectSeq(rest.pairs, LAMBDA p : p[1] # s[i]),
                                     rest.next)
  ELSE IF what = "items"
  THEN LET v == JsonScan("value", s, i)
           k == v.next
       IN  IF ~v.ok THEN v
           ELSE IF k > Len(s) THEN JsonRaises("Expecting ',' delimiter", s, k)
           ELSE IF s[k] = "]" THEN JsonParsed("list", v.val, <<>>, k + 1)
           ELSE IF s[k] # "," THEN JsonRaises("Expecting ',' delimiter", s, k)
           ELSE LET rest == JsonScan("items", s, k + 1)
                IN  IF ~rest.ok THEN rest
                    ELSE JsonParsed("list", v.val \o <<",">> \o rest.val, <<>>,
                                    rest.next)
  ELSE IF i > Len(s) THEN JsonRaises("Expecting value", s, i)
  ELSE IF s[i] \in JsonScalarTokens THEN JsonParsed("scalar", <<s[i]>>, <<>>, i + 1)
  ELSE IF s[i] = "{"
       THEN IF i + 1 <= Len(s) /\ s[i + 1] = "}"
            THEN JsonParsed("dict", <<"{", "}">>, <<>>, i + 2)
            ELSE IF i + 1 > Len(s) \/ s[i + 1] \notin JsonStringTokens
                 THEN JsonRaises("Expecting property name enclosed in double quotes",
                                 s, i + 1)
                 ELSE LET m == JsonScan("members", s, i + 1)
                      IN  IF ~m.ok THEN m
                          ELSE JsonParsed("dict",
                                          <<"{">> \o JsonDumpMembers(m.pairs) \o <<"}">>,
                                          m.pairs, m.next)
  ELSE IF s[i] = "["
       THEN IF i + 1 <= Len(s) /\ s[i + 1] = "]"
            THEN JsonParsed("list", <<"[", "]">>, <<>>, i + 2)
            ELSE LET e == JsonScan("items", s, i + 1)
                 IN  IF ~e.ok THEN e
                     ELSE JsonParsed("list", <<"[">> \o e.val \o <<"]">>, <<>>, e.next)
  ELSE JsonRaises("Expecting value", s, i)

\* The members of an object from the key at token i on.
JsonMembers(s, i) == JsonScan("members", s, i)

\* json.loads(s): kind "dict" with the members, kind "other" for a JSON value
\* that is no object, kind "error" with str(e) when it raises JSONDecodeError.
JsonLoads(s) ==
  LET v == JsonScan("value", s, 1)
      r == IF v.ok /\ v.next <= Len(s) THEN JsonRaises("Extra data", s, v.next) ELSE v
  IN  [kind |-> IF ~r.ok THEN "error" ELSE IF r.kind = "dict" THEN "dict" ELSE "other",
       pairs |-> r.pairs, val |-> r.val, msg |-> r.msg]

\* ---------------------------------------------------------------- messages

\* Message.timestamp's default, DateTime.now() evaluated when the class is defined.
ClassDefinitionTime == 0

\* schemas.Message: a fresh message_id, the default timestamp, the message param.
Message(id, param) ==
  [message_id |-> id, timestamp |-> ClassDefinitionTime,
   chat_completion_message_param |-> param]

\* Mutant of GetMessagesCall: the list is handed over and the history emptied.
GetMessagesCall_Drains(messages) ==
  [returned |-> [i \in 1..Len(messages) |-> messages[i].chat_completion_message_param],
   messages |-> <<>>]

\* A call of get_messages() on a history holding messages: what it returns and
\* what the history holds afterwards.  The comprehension only reads the list.
GetMessagesCall(messages) ==
  [returned |-> [i \in 1..Len(messages) |-> messages[i].chat_completion_message_param],
   messages |-> messages]

\* Mutant of GetMessages: only the system message and the messages from the last
\* user message on are given.
GetMessages_CurrentTurn(messages) ==
  LET users == {i \in 1..Len(messages) :
                  messages[i].chat_completion_message_param.role = "user"}
      from == IF users = {} THEN 2 ELSE CHOOSE i \in users : \A j \in users : j <= i
  IN  [i \in 1..(Len(messages) - from + 2) |->
         IF i = 1 THEN messages[1].chat_completion_message_param
         ELSE messages[from + i - 2].chat_completion_message_param]

\* MessageHistory.get_messages(): the message params, in order.
GetMessages(messages) ==
  [i \in 1..Len(messages) |-> messages[i].chat_completion_message_param]

\* Mutant of ListAppend: a long list has its last element overwritten.
ListAppend_ReplaceLast(l, x) ==
  IF Len(l) >= 3 THEN Append(SubSeq(l, 1, Len(l) - 1), x) ELSE Append(l, x)

\* Mutant of ListAppend: a sliding window that drops the oldest element.
ListAppend_Window(l, x) ==
  IF Len(l) >= 3 THEN Append(Tail(l), x) ELSE Append(l, x)

\* list.append, as in message_history.messages.append(...)
ListAppend(l, x) == Append(l, x)

\* _compile_system_prompt: the template rendered with its four values.
CompileSystemPrompt(knowledge_cutoff, current_date, working_directory, mcp_instructions) ==
  <<"AGENT_SYSTEM_PROMPT", knowledge_cutoff, current_date, working_directory,
    mcp_instructions>>

SystemParam ==
  [role |-> "system",
   content |-> Some(CompileSystemPrompt("2024-10", "2026-10-29", "/work", "## Native MCP Servers"))]

UserParam(user_utterance) == [role |-> "user", content |-> Some(user_utterance)]

\* ------------------------------------------------------------ tool adapter

\* dict[key] = value on a dict kept as a set of <<key, value>> pairs.
DictSet(d, k, v) == {p \in d : p[1] # k} \union {<<k, v>>}

\* Mutant of McpToolToOpenai: additionalProperties is set only where the native
\* schema does not set it.
McpToolToOpenai_SetDefault(tool) ==
  LET parameters == IF tool.inputSchema.some /\ tool.inputSchema.val # {}
                    THEN tool.inputSchema.val ELSE {}
  IN  [type |-> "function",
       function |-> [name |-> tool.name,
                     description |-> IF tool.description.some /\ tool.description.val # <<>>
                                     THEN tool.description.val ELSE <<>>,
                     parameters |-> IF \E p \in parameters : p[1] = "additionalProperties"
                                    THEN parameters
                                    ELSE DictSet(parameters, "additionalProperties", "false"),
                     strict |-> TRUE]]

\* mcp_tool_to_openai(tool)
McpToolToOpenai(tool) ==
  LET parameters == IF tool.inputSchema.some /\ tool.inputSchema.val # {}
                    THEN tool.inputSchema.val ELSE {}
  IN  [type |-> "function",
       function |-> [name |-> tool.name,
                     description |-> IF tool.description.some /\ tool.description.val # <<>>
                                     THEN tool.description.val ELSE <<>>,
                     parameters |-> DictSet(parameters, "additionalProperties", "false"),
                     strict |-> TRUE]]

\* What mcp_client.list_tools() returns.
NativeTools ==
  << [name |-> "view", description |-> Some(<<"View a file or directory">>),
      inputSchema |-> Some({<<"type", "object">>, <<"additionalProperties", "true">>})],
     [name |-> "fetch", description |-> None, inputSchema |-> None] >>

NoResultText == <<"Tool executed but returned no result.">>

\* Mutant of ParseToolCallContent: the last block is looked at, not the first.
ParseToolCallContent_LastBlock(mcp_tool_result) ==
  IF mcp_tool_result = <<>> THEN NoResultText
  ELSE LET last_content == mcp_tool_result[Len(mcp_tool_result)]
       IN  IF last_content.type = "TextContent" THEN last_content.text
           ELSE <<"Tool returned ", last_content.type,
                  " which is not supported. Tell the user their MCP server is not supported yet.">>

\* parse_tool_call_content(mcp_tool_result)
ParseToolCallContent(mcp_tool_result) ==
  IF mcp_tool_result = <<>> THEN NoResultText
  ELSE LET first_content == mcp_tool_result[1]
       IN  IF first_content.type = "TextContent" THEN first_content.text
           ELSE <<"Tool returned ", first_content.type,
                  " which is not supported. Tell the user their MCP server is not supported yet.">>

\* Mutant of ExceptException: only the tool's own error class is caught.
ExceptException_OnlyToolError(e) == e.cls = "ToolError"

\* handle_tool_call's "except Exception": BaseException-only classes pass through.

ExceptException(e) == "Exception" \in e.bases

\* The error text of handle_tool_call's except branch.
ErrorMessage(tool_call, e) ==
  <<"Error executing tool call '", tool_call.function.name, "': ">> \o e.msg \o
  <<"\nEither try to call the tool again with different arguments to do something else.">>

\* Mutant of ToolMessageParam: the tool's name is given as the id of the call.
ToolMessageParam_NameAsId(content, tool_call) ==
  [role |-> "tool", content |-> content, tool_call_id |-> tool_call.function.name]

ToolMessageParam(content, tool_call) ==
  [role |-> "tool", content |-> content, tool_call_id |-> tool_call.id]

\* The json.JSONDecodeError that json.loads(tool_args) raises: str(e) is the
\* decoder's message with the line, column and character of the failure.
JSONDecodeError(tool_args) ==
  [cls |-> "JSONDecodeError", bases |-> {"ValueError", "Exception", "BaseException"},
   msg |-> JsonLoads(tool_args).msg]

\* ---------------------------------------------------------- event projection

\* dict.get("tool_calls") or []
OrEmpty(opt) == IF opt.some THEN opt.val ELSE <<>>

\* ToolCallData(name, id, args=json.loads(arguments)): raises JSONDecodeError when
\* the arguments do not parse and ValidationError when they are no dict.
ToolCallDataError(call) ==
  LET loaded == JsonLoads(call.function.arguments)
  IN  IF loaded.kind = "error" THEN "JSONDecodeError"
      ELSE IF loaded.kind # "dict" THEN "ValidationError"
      ELSE ""

ToolCallData(call) ==
  [name |-> call.function.name, id |-> call.id,
   args |-> JsonLoads(call.function.arguments).pairs]

\* Mutant of CreateAssistantMessageData: a tool call whose arguments do not give a
\* dict is left out of the event.
CreateAssistantMessageData_SkipsBad(assistant_response) ==
  LET tool_calls == OrEmpty(assistant_response.tool_calls)
      good == SelectSeq(tool_calls, LAMBDA call : ToolCallDataError(call) = "")
  IN  [raised |-> FALSE, error |-> "",
       data |-> [type |-> "AssistantMessageData",
                 message |-> assistant_response.content,
                 tool_calls |-> [i \in 1..Len(good) |-> ToolCallData(good[i])]]]

\* create_message_data(assistant_response=...): the AssistantMessageData, or the
\* exception of the first tool call whose arguments do not give a dict.
CreateAssistantMessageData(assistant_response) ==
  LET tool_calls == OrEmpty(assistant_response.tool_calls)
      bad == {i \in 1..Len(tool_calls) : ToolCallDataError(tool_calls[i]) # ""}
  IN  IF bad # {}
      THEN [raised |-> TRUE, error |-> ToolCallDataError(tool_calls[Min(bad)]),
            data |-> <<>>]
      ELSE [raised |-> FALSE, error |-> "",
            data |-> [type |-> "AssistantMessageData",
                      message |-> assistant_response.content,
                      tool_calls |-> [i \in 1..Len(tool_calls) |-> ToolCallData(tool_calls[i])]]]

\* Mutant of CreateToolMessageData: the name and the id of the call are swapped.
CreateToolMessageData_Swapped(tool_call, tool_message) ==
  [type |-> "ToolMessageData", name |-> tool_call.id, id |-> tool_call.function.name,
   content |-> tool_message.content]

\* create_message_data(tool_call=..., tool_message=...); the content handle_tool_call
\* builds is always a str, so the isinstance test keeps it.
CreateToolMessageData(tool_call, tool_message) ==
  [type |-> "ToolMessageData", name |-> tool_call.function.name, id |-> tool_call.id,
   content |-> tool_message.content]

\* -------------------------------------------------------------- environment

\* Texts the completion backend may return as the assistant's content.
TextDone == <<"D", "o", "n", "e", ".">>

TextThinkDone == ThinkOpen \o <<"x">> \o ThinkClose \o <<" ">> \o TextDone

CallView == [id |-> "c1", function |-> [name |-> "view", arguments |-> ArgsPathDot]]

CallFetch == [id |-> "c2", function |-> [name |-> "fetch", arguments |-> ArgsEmptyObj]]

CallBadArgs == [id |-> "c3", function |-> [name |-> "view", arguments |-> ArgsBad]]

CallListArgs == [id |-> "c4", function |-> [name |-> "fetch", arguments |-> ArgsList]]

AssistantResponse(content, tool_calls) ==
  [role |-> "assistant", content |-> content, tool_calls |-> tool_calls]

\* response.choices[0].message of the well-formed completion responses drawn.
Responses ==
  { AssistantResponse(Some(TextDone), None),
    AssistantResponse(None, Some(<<>>)),
    AssistantResponse(None, Some(<<CallView>>)),
    AssistantResponse(Some(TextThinkDone), Some(<<CallView, CallFetch>>)),
    AssistantResponse(Some(<<>>), Some(<<CallBadArgs>>)),
    AssistantResponse(Some(TextDone), Some(<<CallFetch, CallListArgs>>)) }

\* How a completion request fails: acompletion raises, or response.choices is
\* empty (IndexError) or None (TypeError), or the response has no choices, the
\* choice no message, or the message is None (AttributeError).
CompletionFailures == {"APIConnectionError", "IndexError", "TypeError", "AttributeError"}

ToolError ==
  [cls |-> "ToolError", bases |-> {"Exception", "BaseException"}, msg |-> <<"boom">>]

ToolTimeout ==
  [cls |-> "McpError", bases |-> {"Exception", "BaseException"},
   msg |-> <<"Timed out while waiting for response">>]

TextBlock == [type |-> "TextContent", text |-> <<"a.txt\nb.txt">>]

ImageBlock == [type |-> "ImageContent", text |-> <<>>]

Returned(blocks) == [raised |-> FALSE, result |-> blocks, exc |-> ToolError]

Raised(e) == [raised |-> TRUE, result |-> <<>>, exc |-> e]

\* What mcp_client.call_tool(name, ...) does: returns content blocks or raises.
ToolOutcomes(name) ==
  IF name = "view"
  THEN {Returned(<<TextBlock>>), Returned(<<>>), Raised(ToolError)}
  ELSE {Returned(<<ImageBlock, TextBlock>>), Raised(ToolTimeout)}

UserUtterances == {<<"list files">>}

\* -------------------------------------------------------------------- state

VARIABLES
  max_steps,      \* AgentConfig.max_steps of this agent
  history,        \* Agent.message_history.messages
  next_id,        \* the next fresh Message.message_id
  pc,             \* where turn() stands: idle, list_tools, completion,
                  \* yield_assistant, tool, yield_tool
  mcp_tools,      \* turn()'s local mcp_tools
  step,           \* iterations of "for _ in range(max_steps)" completed
  tool_calls,     \* turn()'s local tool_calls
  tc_idx,         \* position of "for tool_call in tool_calls" (0: before it)
  request,        \* the completion request in flight, if any
  tool_request,   \* the call_tool request in flight, if any
  tool_outcome,   \* what call_tool did for the tool event last yielded, if any
  events,         \* what this turn has yielded so far, in order
  outcome,        \* how the last turn() stands or ended
  completions,    \* completion requests issued in this turn
  turn_start,     \* index in history of this turn's user message (0: none yet)
  outstanding,    \* the awaited calls of turn() that have not come back, oldest first
  last_raw,       \* content of the last completion response as the backend sent it
  st_text,        \* the text given to strip_thinking
  st_results,     \* results of applying strip_thinking to it once, twice, ...
  pt_result,      \* the tool response given to parse_tool_call_content
  pt_content,     \* what parse_tool_call_content returned for it, if called
  mh_messages,    \* MessageHistory.messages of a history used on its own
  mh_last,        \* the last operation on that history and what it returned
  pj_response,    \* the assistant response given to create_message_data
  pj_result,      \* what create_message_data did for it, if called
  tw_lists,       \* the list objects that exist, by identity
  tw_ref,         \* for each of two agents, the list its message_history.messages is
  tw_actor,       \* the agent that took the last step
  fs_root,        \* the first root the MCP client configured, if any
  fs_files,       \* the files of the filesystem: <<path, text>> pairs
  fs_dirs,        \* the directories of the filesystem
  fs_ops,         \* calls of the editing tools made so far
  fs_last,        \* the last call: its arguments, the filesystem before, the result
  cl_cache,       \* the terminal front end's _tool_calls_cache: <<id, ToolCall>> pairs
  cl_at,          \* length of the history when the front end last handled an event
  cl_shown,       \* what handle_event printed last
  cl_raised,      \* the exception handle_event raised, "" while it has raised none
  sc_pc,          \* where a second turn() call on the same agent stands
  sc_step,        \* its completed loop iterations
  sc_tool_calls,  \* its tool_calls of the current response
  sc_tc_idx,      \* its position in them
  sc_request,     \* its completion request in flight, if any
  cf_file,        \* the text of the config file, if the file exists
  cf_ops,         \* loads and edits of the config file so far
  cf_last         \* the last load_config call: the file before it and its result

agent_vars ==
  <<max_steps, history, next_id, pc, mcp_tools, step, tool_calls, tc_idx, request,
    tool_request, tool_outcome, events, outcome, completions, turn_start,
    outstanding, last_raw>>

strip_vars == <<st_text, st_results>>

parse_vars == <<pt_result, pt_content>>

hist_vars == <<mh_messages, mh_last>>

proj_vars == <<pj_response, pj_result>>

two_vars == <<tw_lists, tw_ref, tw_actor>>

fs_vars == <<fs_root, fs_files, fs_dirs, fs_ops, fs_last>>

cli_vars == <<cl_cache, cl_at, cl_shown, cl_raised>>

second_vars == <<sc_pc, sc_step, sc_tool_calls, sc_tc_idx, sc_request>>

config_vars == <<cf_file, cf_ops, cf_last>>

\* What the checks of the functions outside turn() hold; turn() never touches it.
pure_vars ==
  <<strip_vars, parse_vars, hist_vars, proj_vars, two_vars, fs_vars, cli_vars,
    second_vars, config_vars>>

vars == <<agent_vars, pure_vars>>

Running == [status |-> "running", error |-> ""]

ReturnedNormally == [status |-> "returned", error |-> ""]

RaisedError(e) == [status |-> "raised", error |-> e]

Cancelled == [status |-> "cancelled", error |-> ""]

\* Agent.__init__: the history holds the system message.
AgentInit ==
  /\ history = ListAppend(<<>>, Message(1, SystemParam))
  /\ next_id = 2
  /\ pc = "idle"
  /\ mcp_tools = <<>>
  /\ step = 0
  /\ tool_calls = <<>>
  /\ tc_idx = 0
  /\ request = None
  /\ tool_request = None
  /\ tool_outcome = None
  /\ events = <<>>
  /\ outcome = [status |-> "none", error |-> ""]
  /\ completions = 0
  /\ turn_start = 0
  /\ outstanding = <<>>
  /\ last_raw = None

\* An agent that stays as constructed while a function is checked on its own.
AgentIdle == max_steps = MaxStepsCfg /\ AgentInit

\* No call of strip_thinking is under check.
StripIdle == st_text = None /\ st_results = <<>>

\* No call of parse_tool_call_content is under check.
ParseIdle == pt_result = <<>> /\ pt_content = None

\* No MessageHistory is used on its own.
HistIdle == mh_messages = <<>> /\ mh_last = [op |-> "none"]

\* No call of create_message_data is under check.
ProjIdle == pj_response = None /\ pj_result = None

\* No pair of agents is under check.
TwoIdle == tw_lists = <<>> /\ tw_ref = <<>> /\ tw_actor = ""

\* No filesystem server is under check.
FsIdle ==
  /\ fs_root = None
  /\ fs_files = {}
  /\ fs_dirs = {}
  /\ fs_ops = 0
  /\ fs_last = [tool |-> "none"]

\* No terminal front end is under check.
CliIdle ==
  /\ cl_cache = {}
  /\ cl_at = 0
  /\ cl_shown = [kind |-> "none"]
  /\ cl_raised = ""

\* No second turn() call has been made.
SecondIdle ==
  /\ sc_pc = "idle"
  /\ sc_step = 0
  /\ sc_tool_calls = <<>>
  /\ sc_tc_idx = 0
  /\ sc_request = None

\* No configuration file is under check.
ConfigIdle == cf_file = None /\ cf_ops = 0 /\ cf_last = [op |-> "none"]

\* Everything but part g is left as constructed.
IdleExcept(g) ==
  /\ IF g = "agent" THEN TRUE ELSE AgentIdle
  /\ IF g = "strip" THEN TRUE ELSE StripIdle
  /\ IF g = "parse" THEN TRUE ELSE ParseIdle
  /\ IF g = "hist" THEN TRUE ELSE HistIdle
  /\ IF g = "proj" THEN TRUE ELSE ProjIdle
  /\ IF g = "two" THEN TRUE ELSE TwoIdle
  /\ IF g = "fs" THEN TRUE ELSE FsIdle
  /\ IF g = "cli" THEN TRUE ELSE CliIdle
  /\ IF g = "second" THEN TRUE ELSE SecondIdle
  /\ IF g = "config" THEN TRUE ELSE ConfigIdle

\* A step of part g changes nothing of the other parts.
Frame(g) ==
  /\ IF g = "agent" THEN TRUE ELSE UNCHANGED agent_vars
  /\ IF g = "strip" THEN TRUE ELSE UNCHANGED strip_vars
  /\ IF g = "parse" THEN TRUE ELSE UNCHANGED parse_vars
  /\ IF g = "hist" THEN TRUE ELSE UNCHANGED hist_vars
  /\ IF g = "proj" THEN TRUE ELSE UNCHANGED proj_vars
  /\ IF g = "two" THEN TRUE ELSE UNCHANGED two_vars
  /\ IF g = "fs" THEN TRUE ELSE UNCHANGED fs_vars
  /\ IF g = "cli" THEN TRUE ELSE UNCHANGED cli_vars
  /\ IF g = "second" THEN TRUE ELSE UNCHANGED second_vars
  /\ IF g = "config" THEN TRUE ELSE UNCHANGED config_vars

\* An agent with any configured max_steps; only turn() is under check.
Init ==
  /\ max_steps \in 0..MaxStepsCfg
  /\ AgentInit
  /\ IdleExcept("agent")

\* The awaited calls of turn().
ListToolsCall == [kind |-> "list_tools", id |-> ""]

CompletionCall == [kind |-> "completion", id |-> ""]

ToolCallCall(tool_call) == [kind |-> "call_tool", id |-> tool_call.id]

\* "await f(...)": the call is issued and turn() is suspended on it.
Issue(calls, c) == Append(calls, c)

\* Mutant of Settle: the call is left running when turn() goes on.
Settle_Leak(calls) == calls

\* The awaited call comes back (returns or raises) and turn() goes on.
Settle(calls) == Tail(calls)

\* Mutant of RangeHasNext: one iteration too many.
RangeHasNext_Inclusive(s) == s <= max_steps

\* range(max_steps) has a next value after s iterations.

RangeHasNext(s) == s < max_steps

\* Mutant of HasNextToolCall: the last tool call of a batch is skipped.
HasNextToolCall_DropLast(i, calls) == i < Len(calls) - 1

\* "for tool_call in tool_calls" has a next element after position i.

HasNextToolCall(i, calls) == i < Len(calls)

\* The head of "for _ in range(max_steps)" after s iterations, with history h,
\* tool descriptors t and awaited calls c: the next completion request is issued,
\* or turn() returns.
LoopHead(s, h, t, c) ==
  IF RangeHasNext(s)
  THEN /\ pc' = "completion"
       /\ request' = Some([messages |-> GetMessages(h), tools |-> t])
       /\ outstanding' = Issue(c, CompletionCall)
       /\ completions' = completions + 1
       /\ outcome' = Running
  ELSE /\ pc' = "idle"
       /\ request' = None
       /\ outstanding' = c
       /\ completions' = completions
       /\ outcome' = ReturnedNormally

\* agent.turn(user_utterance) is called and runs to "await list_tools()".  The
\* utterance is first used when the user message is built, and is drawn there.
\* The code starts a turn on any history; the bound on its length only keeps the
\* histories the model follows finite.
StartTurn ==
  /\ pc = "idle"
  /\ Len(history) <= MaxHistAtStart
  /\ pc' = "list_tools"
  /\ outcome' = Running
  /\ events' = <<>>
  /\ completions' = 0
  /\ step' = 0
  /\ tool_calls' = <<>>
  /\ tc_idx' = 0
  /\ turn_start' = 0
  /\ mcp_tools' = <<>>
  /\ tool_outcome' = None
  /\ last_raw' = None
  /\ outstanding' = Issue(outstanding, ListToolsCall)
  /\ UNCHANGED <<max_steps, history, next_id, request, tool_request, pure_vars>>

\* list_tools() returns: the descriptors are converted, the user message is
\* appended and the loop is entered.
ListToolsReturn ==
  /\ pc = "list_tools"
  /\ mcp_tools' = [i \in 1..Len(NativeTools) |-> McpToolToOpenai(NativeTools[i])]
  /\ \E user_utterance \in UserUtterances :
       history' = ListAppend(history, Message(next_id, UserParam(user_utterance)))
  /\ next_id' = next_id + 1
  /\ turn_start' = Len(history) + 1
  /\ LoopHead(0, history', mcp_tools', Settle(outstanding))
  /\ UNCHANGED <<max_steps, step, tool_calls, tc_idx, tool_request, tool_outcome, events,
                 last_raw, pure_vars>>

\* Mutant of ListToolsFail: the user message is appended before tool discovery.
ListToolsFail_AfterAppend ==
  /\ pc = "list_tools"
  /\ pc' = "idle"
  /\ outcome' = RaisedError("list_tools")
  /\ outstanding' = Settle(outstanding)
  /\ \E user_utterance \in UserUtterances :
       history' = ListAppend(history, Message(next_id, UserParam(user_utterance)))
  /\ next_id' = next_id + 1
  /\ UNCHANGED <<max_steps, mcp_tools, step, tool_calls, tc_idx,
                 request, tool_request, tool_outcome, events, completions, turn_start,
                 last_raw, pure_vars>>

\* list_tools() raises: turn() raises before anything is appended.
ListToolsFail ==
  /\ pc = "list_tools"
  /\ pc' = "idle"
  /\ outcome' = RaisedError("list_tools")
  /\ outstanding' = Settle(outstanding)
  /\ UNCHANGED <<max_steps, history, next_id, mcp_tools, step, tool_calls, tc_idx,
                 request, tool_request, tool_outcome, events, completions, turn_start,
                 last_raw, pure_vars>>

\* Mutant of CompletionReturn: the message is appended as the backend sent it and
\* only the projected event is stripped.
CompletionReturn_StoresRaw(response) ==
  /\ pc = "completion"
  /\ LET assistant_response ==
           [response EXCEPT !.content = StripThinking(response.content)]
         projected == CreateAssistantMessageData(assistant_response)
     IN  /\ history' = ListAppend(history, Message(next_id, response))
         /\ next_id' = next_id + 1
         /\ tool_calls' = OrEmpty(assistant_response.tool_calls)
         /\ IF projected.raised
            THEN /\ pc' = "idle"
                 /\ outcome' = RaisedError(projected.error)
                 /\ events' = events
            ELSE /\ pc' = "yield_assistant"
                 /\ outcome' = outcome
                 /\ events' = Append(events, projected.data)
  /\ request' = None
  /\ outstanding' = Settle(outstanding)
  /\ last_raw' = Some(response.content)
  /\ tc_idx' = 0
  /\ UNCHANGED <<max_steps, mcp_tools, step, tool_request, tool_outcome, completions,
                 turn_start, pure_vars>>

\* The completion returns a message: it is stripped and appended, and its
\* projection is yielded, or raises.
CompletionReturn(response) ==
  /\ pc = "completion"
  /\ LET assistant_response ==
           [response EXCEPT !.content = StripThinking(response.content)]
         projected == CreateAssistantMessageData(assistant_response)
     IN  /\ history' = ListAppend(history, Message(next_id, assistant_response))
         /\ next_id' = next_id + 1
         /\ tool_calls' = OrEmpty(assistant_response.tool_calls)
         /\ IF projected.raised
            THEN /\ pc' = "idle"
                 /\ outcome' = RaisedError(projected.error)
                 /\ events' = events
            ELSE /\ pc' = "yield_assistant"
                 /\ outcome' = outcome
                 /\ events' = Append(events, projected.data)
  /\ request' = None
  /\ outstanding' = Settle(outstanding)
  /\ last_raw' = Some(response.content)
  /\ tc_idx' = 0
  /\ UNCHANGED <<max_steps, mcp_tools, step, tool_request, tool_outcome, completions,
                 turn_start, pure_vars>>

\* Mutant of CompletionFail: the assistant message is appended before the
\* response is looked at, so a failed request leaves an empty one behind.
CompletionFail_AppendsFirst(failure) ==
  /\ pc = "completion"
  /\ pc' = "idle"
  /\ outcome' = RaisedError(failure)
  /\ request' = None
  /\ outstanding' = Settle(outstanding)
  /\ history' = ListAppend(history, Message(next_id, AssistantResponse(None, None)))
  /\ next_id' = next_id + 1
  /\ UNCHANGED <<max_steps, mcp_tools, step, tool_calls, tc_idx,
                 tool_request, tool_outcome, events, completions, turn_start,
                 last_raw, pure_vars>>

\* The completion request fails or its response is malformed: turn() raises.
CompletionFail(failure) ==
  /\ pc = "completion"
  /\ pc' = "idle"
  /\ outcome' = RaisedError(failure)
  /\ request' = None
  /\ outstanding' = Settle(outstanding)
  /\ UNCHANGED <<max_steps, history, next_id, mcp_tools, step, tool_calls, tc_idx,
                 tool_request, tool_outcome, events, completions, turn_start,
                 last_raw, pure_vars>>

\* handle_tool_call(tool_calls[i]) up to its await: the arguments are parsed and
\* call_tool is issued; arguments that do not parse give the error message at once.
Dispatch(i) ==
  LET tool_call == tool_calls'[i]
      tool_args == JsonLoads(tool_call.function.arguments)
  IN  /\ tc_idx' = i
      /\ IF tool_args.kind = "error"
         THEN LET tool_message ==
                    ToolMessageParam(ErrorMessage(tool_call, JSONDecodeError(tool_call.function.arguments)), tool_call)
              IN  /\ history' = ListAppend(history, Message(next_id, tool_message))
                  /\ next_id' = next_id + 1
                  /\ events' = Append(events, CreateToolMessageData(tool_call, tool_message))
                  /\ pc' = "yield_tool"
                  /\ tool_request' = None
                  /\ outstanding' = outstanding
         ELSE /\ pc' = "tool"
              /\ tool_request' = Some([name |-> tool_call.function.name,
                                        arguments |-> tool_args, timeout |-> 60])
              /\ outstanding' = Issue(outstanding, ToolCallCall(tool_call))
              /\ UNCHANGED <<history, next_id, events>>

\* Mutant of ResumeAfterAssistant: a response without tool calls does not leave
\* the loop.
ResumeAfterAssistant_NoBreak ==
  /\ pc = "yield_assistant"
  /\ tool_calls' = tool_calls
  /\ IF tool_calls = <<>>
     THEN /\ step' = step + 1
          /\ LoopHead(step + 1, history, mcp_tools, outstanding)
          /\ UNCHANGED <<history, next_id, events, tc_idx, tool_request>>
     ELSE /\ Dispatch(1)
          /\ outcome' = outcome
          /\ UNCHANGED <<step, request, completions>>
  /\ UNCHANGED <<max_steps, mcp_tools, tool_outcome, turn_start, last_raw, pure_vars>>

\* The consumer asks for the next event after an assistant event.
ResumeAfterAssistant ==
  /\ pc = "yield_assistant"
  /\ tool_calls' = tool_calls
  /\ IF tool_calls = <<>>
     THEN /\ pc' = "idle"
          /\ outcome' = ReturnedNormally
          /\ UNCHANGED <<history, next_id, events, tc_idx, tool_request, outstanding>>
     ELSE /\ Dispatch(1)
          /\ outcome' = outcome
  /\ UNCHANGED <<max_steps, mcp_tools, step, request, tool_outcome, completions,
                 turn_start, last_raw, pure_vars>>

\* Mutant of ToolReturn: the tool result is appended but its event is held back
\* instead of being yielded before the next tool call.
ToolReturn_Batched(o) ==
  /\ pc = "tool"
  /\ o \in ToolOutcomes(tool_request.val.name)
  /\ tool_request' = None
  /\ tool_outcome' = Some(o)
  /\ outstanding' = Settle(outstanding)
  /\ LET tool_call == tool_calls[tc_idx]
     IN  IF o.raised /\ ~ExceptException(o.exc)
         THEN /\ pc' = "idle"
              /\ outcome' = RaisedError(o.exc.cls)
              /\ UNCHANGED <<history, next_id, events>>
         ELSE LET content == IF o.raised THEN ErrorMessage(tool_call, o.exc)
                             ELSE ParseToolCallContent(o.result)
                  tool_message == ToolMessageParam(content, tool_call)
              IN  /\ history' = ListAppend(history, Message(next_id, tool_message))
                  /\ next_id' = next_id + 1
                  /\ events' = events
                  /\ pc' = "yield_tool"
                  /\ outcome' = outcome
  /\ UNCHANGED <<max_steps, mcp_tools, step, tool_calls, tc_idx, request, completions,
                 turn_start, last_raw, pure_vars>>

\* call_tool returns or raises: handle_tool_call builds the tool message, which is
\* appended and projected; an exception "except Exception" does not catch leaves
\* turn().
ToolReturn(o) ==
  /\ pc = "tool"
  /\ o \in ToolOutcomes(tool_request.val.name)
  /\ tool_request' = None
  /\ tool_outcome' = Some(o)
  /\ outstanding' = Settle(outstanding)
  /\ LET tool_call == tool_calls[tc_idx]
     IN  IF o.raised /\ ~ExceptException(o.exc)
         THEN /\ pc' = "idle"
              /\ outcome' = RaisedError(o.exc.cls)
              /\ UNCHANGED <<history, next_id, events>>
         ELSE LET content == IF o.raised THEN ErrorMessage(tool_call, o.exc)
                             ELSE ParseToolCallContent(o.result)
                  tool_message == ToolMessageParam(content, tool_call)
              IN  /\ history' = ListAppend(history, Message(next_id, tool_message))
                  /\ next_id' = next_id + 1
                  /\ events' = Append(events, CreateToolMessageData(tool_call, tool_message))
                  /\ pc' = "yield_tool"
                  /\ outcome' = outcome
  /\ UNCHANGED <<max_steps, mcp_tools, step, tool_calls, tc_idx, request, completions,
                 turn_start, last_raw, pure_vars>>

\* The consumer asks for the next event after a tool event: the next tool call is
\* dispatched, or the step ends and the loop head is reached.
ResumeAfterTool ==
  /\ pc = "yield_tool"
  /\ tool_calls' = tool_calls
  /\ tool_outcome' = None
  /\ IF HasNextToolCall(tc_idx, tool_calls)
     THEN /\ Dispatch(tc_idx + 1)
          /\ UNCHANGED <<step, request, completions, outcome>>
     ELSE /\ step' = step + 1
          /\ LoopHead(step + 1, history, mcp_tools, outstanding)
          /\ UNCHANGED <<history, next_id, events, tc_idx, tool_request>>
  /\ UNCHANGED <<max_steps, mcp_tools, turn_start, last_raw, pure_vars>>

\* The consumer abandons the stream, or the task running turn() is cancelled, at
\* a suspension point: the generator is closed there, the call it awaits is
\* cancelled with it, and nothing more runs.
Cancel ==
  /\ pc \in {"list_tools", "completion", "yield_assistant", "tool", "yield_tool"}
  /\ pc' = "idle"
  /\ outcome' = Cancelled
  /\ request' = None
  /\ tool_request' = None
  /\ tool_outcome' = None
  /\ outstanding' = <<>>
  /\ UNCHANGED <<max_steps, history, next_id, mcp_tools, step, tool_calls, tc_idx,
                 events, completions, turn_start, last_raw, pure_vars>>

Next ==
  \/ StartTurn
  \/ ListToolsReturn
  \/ ListToolsFail
  \/ \E r \in Responses : CompletionReturn(r)
  \/ \E f \in CompletionFailures : CompletionFail(f)
  \/ ResumeAfterAssistant
  \/ \E o \in ToolOutcomes("view") \union ToolOutcomes("fetch") : ToolReturn(o)
  \/ ResumeAfterTool
  \/ Cancel

Spec == Init /\ [][Next]_vars

\* The steps of a turn in flight: the awaited calls return or raise, and the
\* consumer ("async for event in agent.turn(...)") asks for the next event.
TurnStep ==
  \/ ListToolsReturn
  \/ ListToolsFail
  \/ \E r \in Responses : CompletionReturn(r)
  \/ \E f \in CompletionFailures : CompletionFail(f)
  \/ ResumeAfterAssistant
  \/ \E o \in ToolOutcomes("view") \union ToolOutcomes("fetch") : ToolReturn(o)
  \/ ResumeAfterTool

\* Every awaited call comes back and the consumer keeps iterating.
FairSpec == Spec /\ WF_vars(TurnStep)

\* ------------------------------------------------- strip_thinking on its own

\* The texts given to strip_thinking are made of at most MaxPieces pieces, and
\* strip_thinking is applied to its own result up to StripPasses times.
MaxPieces == 4

StripPasses == 2

\* Markers, halves of a start marker, a character, whitespace, and a whole
\* reasoning segment with a line break inside.
StripPieces ==
  {ThinkOpen, ThinkClose, <<"<", "t", "h", "i">>, <<"n", "k", ">">>, <<"x">>, <<" ">>,
   ThinkOpen \o <<"\n">> \o ThinkClose}

RECURSIVE Flatten(_)
Flatten(ps) == IF ps = <<>> THEN <<>> ELSE Head(ps) \o Flatten(Tail(ps))

\* None, the empty text and every text of one to MaxPieces pieces.
StripInputs ==
  {None} \union
  {Some(Flatten(ps)) : ps \in UNION {[1..n -> StripPieces] : n \in 0..MaxPieces}}

StripInit ==
  /\ IdleExcept("strip")
  /\ st_text \in StripInputs
  /\ st_results = <<>>

\* strip_thinking(content), applied to the text and then to its own result.
StripApply ==
  /\ Len(st_results) < StripPasses
  /\ st_results' = Append(st_results,
                          StripThinking(IF st_results = <<>> THEN st_text
                                        ELSE st_results[Len(st_results)]))
  /\ UNCHANGED st_text
  /\ Frame("strip")

StripNext == StripApply

StripSpec == StripInit /\ [][StripNext]_vars

\* ---------------------------------------- parse_tool_call_content on its own

\* A tool response has at most MaxBlocks content blocks.
MaxBlocks == 3

\* Text blocks, one of them with an empty text, and blocks of the other types.
ContentBlocks ==
  {TextBlock, [type |-> "TextContent", text |-> <<>>],
   [type |-> "TextContent", text |-> <<"ok">>], ImageBlock,
   [type |-> "AudioContent", text |-> <<>>], [type |-> "EmbeddedResource", text |-> <<>>]}

ToolResponses == UNION {[1..n -> ContentBlocks] : n \in 0..MaxBlocks}

ParseInit ==
  /\ IdleExcept("parse")
  /\ pt_result \in ToolResponses
  /\ pt_content = None

\* content = parse_tool_call_content(result)
ParseApply ==
  /\ ~pt_content.some
  /\ pt_content' = Some(ParseToolCallContent(pt_result))
  /\ UNCHANGED pt_result
  /\ Frame("parse")

ParseNext == ParseApply

ParseSpec == ParseInit /\ [][ParseNext]_vars

\* ------------------------------------------- create_message_data on its own

\* An assistant response requests at most MaxCalls tool invocations.
MaxCalls == 2

\* Assistant responses: an absent, an empty or some text, with no tool_calls
\* or with a list of tool calls whose arguments are an object, an empty object,
\* an unfinished object or a list.
ProjInputs ==
  {AssistantResponse(content, requested) :
     content \in {None, Some(<<>>), Some(TextDone), Some(TextThinkDone)},
     requested \in {None} \union
       {Some(calls) : calls \in UNION {[1..n -> {CallView, CallFetch, CallBadArgs,
                                                 CallListArgs}] : n \in 0..MaxCalls}}}

ProjInit ==
  /\ IdleExcept("proj")
  /\ pj_response \in {Some(r) : r \in ProjInputs}
  /\ pj_result = None

\* create_message_data(assistant_response=assistant_response)
ProjApply ==
  /\ ~pj_result.some
  /\ pj_result' = Some(CreateAssistantMessageData(pj_response.val))
  /\ UNCHANGED pj_response
  /\ Frame("proj")

ProjNext == ProjApply

ProjSpec == ProjInit /\ [][ProjNext]_vars

\* ---------------------------------------------------------------- two agents

\* Each of the two agents appends at most MaxAppends messages after its system
\* message.
MaxAppends == 3

Agents == {"agent1", "agent2"}

\* The list object "[]" of the class body of MessageHistory, and the list
\* objects made when the agents are constructed.
ClassDefaultList == "MessageHistory.messages"

ListObjects == {ClassDefaultList} \union Agents

\* Mutant of FieldDefault: the instance gets the default object itself.
FieldDefault_SameObject(default, fresh) == default

\* The value of a field with a mutable default in a new pydantic model instance:
\* a copy of the default, a new object.
FieldDefault(default, fresh) == fresh

\* The messages of agent a's history.
HistoryOf(a) == tw_lists[tw_ref[a]]

TwoInit ==
  /\ IdleExcept("two")
  /\ tw_lists = [o \in ListObjects |-> <<>>]
  /\ tw_ref = [a \in Agents |-> ""]
  /\ tw_actor = ""

\* Agent.__init__ of agent a: MessageHistory(), then the system message is
\* appended to its messages.  A message id names the agent that made it.
TwoConstruct(a) ==
  /\ tw_ref[a] = ""
  /\ LET messages == FieldDefault(ClassDefaultList, a)
         copied == [tw_lists EXCEPT ![a] = tw_lists[ClassDefaultList]]
     IN  /\ tw_ref' = [tw_ref EXCEPT ![a] = messages]
         /\ tw_lists' = [copied EXCEPT ![messages] =
                           ListAppend(copied[messages], Message(<<a, 1>>, SystemParam))]
  /\ tw_actor' = a
  /\ Frame("two")

\* A step of a turn of agent a that appends a message to its history.
TwoAppend(a, param) ==
  /\ tw_ref[a] # ""
  /\ Len(HistoryOf(a)) <= MaxAppends
  /\ tw_lists' = [tw_lists EXCEPT ![tw_ref[a]] =
                    ListAppend(@, Message(<<a, Len(@) + 1>>, param))]
  /\ tw_actor' = a
  /\ UNCHANGED tw_ref
  /\ Frame("two")

TwoNext ==
  \/ \E a \in Agents : TwoConstruct(a)
  \/ \E a \in Agents, param \in {UserParam(<<"list files">>),
                                  AssistantResponse(Some(TextDone), None)} :
       TwoAppend(a, param)

TwoSpec == TwoInit /\ [][TwoNext]_vars

\* ------------------------------------------------- MessageHistory on its own

\* The history used on its own holds at most MaxMessages messages.
MaxMessages == 4

\* What is appended to it: a user message, assistant messages, a tool message.
HistoryParams ==
  {UserParam(<<"list files">>), AssistantResponse(Some(TextDone), None),
   AssistantResponse(None, Some(<<CallView>>)), ToolMessageParam(TextBlock.text, CallView)}

HistInit ==
  /\ IdleExcept("hist")
  /\ mh_messages = ListAppend(<<>>, Message(1, SystemParam))
  /\ mh_last = [op |-> "none"]

\* self.message_history.messages.append(Message(chat_completion_message_param=param))
HistAppend(param) ==
  /\ Len(mh_messages) < MaxMessages
  /\ mh_messages' = ListAppend(mh_messages, Message(Len(mh_messages) + 1, param))
  /\ mh_last' = [op |-> "append"]
  /\ Frame("hist")

\* self.message_history.get_messages(), at any point.
HistGetMessages ==
  /\ LET call == GetMessagesCall(mh_messages)
     IN  /\ mh_messages' = call.messages
         /\ mh_last' = [op |-> "get_messages", before |-> mh_messages,
                        returned |-> call.returned]
  /\ Frame("hist")

HistNext ==
  \/ \E param \in HistoryParams : HistAppend(param)
  \/ HistGetMessages

HistSpec == HistInit /\ [][HistNext]_vars

\* --------------------------------------------------------- filesystem server

\* The editing tools are called at most MaxFsOps times.
MaxFsOps == 2

\* A path object is the sequence of the parts of an absolute path.  The root
\* the client configured, a symbolic link inside it and the directory outside
\* the root that the link points to:
RootDir == <<"work">>

LinkPath == <<"work", "link">>

LinkTarget == <<"out">>

\* Path.resolve(): ".." steps up, a symbolic link is followed.
RECURSIVE Walk(_, _)
Walk(done, rest) ==
  IF rest = <<>> THEN done
  ELSE IF Head(rest) = ".."
       THEN Walk(IF done = <<>> THEN done
                 ELSE SubSeq(done, 1, Len(done) - 1), Tail(rest))
       ELSE LET next == Append(done, Head(rest))
            IN  Walk(IF next = LinkPath THEN LinkTarget ELSE next, Tail(rest))

Resolve(path_obj) == Walk(<<>>, path_obj)

\* Path.relative_to(base) does not raise: base's parts start path_obj's parts.
RelativeTo(path_obj, base) ==
  /\ Len(base) <= Len(path_obj)
  /\ SubSeq(path_obj, 1, Len(base)) = base

\* What the operating system does with a path it is handed: it follows the
\* path's ".." and links itself, whether or not the caller resolved them.
IsFile(fs, path_obj) == \E e \in fs.files : e[1] = Resolve(path_obj)

IsDir(fs, path_obj) == Resolve(path_obj) \in fs.dirs

Exists(fs, path_obj) == IsFile(fs, path_obj) \/ IsDir(fs, path_obj)

ReadText(fs, path_obj) ==
  (CHOOSE e \in fs.files : e[1] = Resolve(path_obj))[2]

WriteText(fs, path_obj, text) ==
  [fs EXCEPT !.files =
     {e \in @ : e[1] # Resolve(path_obj)} \union {<<Resolve(path_obj), text>>}]

\* path_obj.parent.mkdir(parents=True, exist_ok=True): raises when a part of
\* the parent is a file, makes the missing directories otherwise.
ParentsOf(path_obj) ==
  {SubSeq(Resolve(path_obj), 1, k) : k \in 1..(Len(Resolve(path_obj)) - 1)}

MkdirParentsRaises(fs, path_obj) ==
  \E d \in ParentsOf(path_obj) : IsFile(fs, d)

MkdirParents(fs, path_obj) ==
  [fs EXCEPT !.dirs = @ \union ParentsOf(path_obj)]

\* str.splitlines() of a text whose only line boundary is "\n".
RECURSIVE Splitlines(_)
Splitlines(s) ==
  IF s = <<>> THEN <<>>
  ELSE LET breaks == {i \in 1..Len(s) : s[i] = "\n"}
       IN  IF breaks = {} THEN <<s>>
           ELSE <<SubSeq(s, 1, Min(breaks) - 1)>>
                  \o Splitlines(SubSeq(s, Min(breaks) + 1, Len(s)))

\* "\n".join(lines)
RECURSIVE Join(_)
Join(lines) ==
  IF lines = <<>> THEN <<>>
  ELSE IF Len(lines) = 1 THEN lines[1]
       ELSE lines[1] \o <<"\n">> \o Join(Tail(lines))

\* list.insert(at, x) for 0 <= at <= len
InsertAt(lines, at, x) ==
  SubSeq(lines, 1, at) \o <<x>> \o SubSeq(lines, at + 1, Len(lines))

\* str.count(old): the occurrences found left to right without overlap; the
\* empty string occurs before every character and at the end.
RECURSIVE CountFrom(_, _, _)
CountFrom(s, old, i) ==
  IF i + Len(old) - 1 > Len(s) THEN 0
  ELSE IF MatchAt(s, i, old) THEN 1 + CountFrom(s, old, i + Len(old))
       ELSE CountFrom(s, old, i + 1)

Count(s, old) == IF old = <<>> THEN Len(s) + 1 ELSE CountFrom(s, old, 1)

\* str.replace(old, new, n): the first n occurrences, all of them for n = -1.
RECURSIVE ReplaceFrom(_, _, _, _, _)
ReplaceFrom(s, old, new, i, n) ==
  IF i > Len(s) THEN IF old = <<>> /\ n # 0 THEN new ELSE <<>>
  ELSE IF n = 0 THEN SubSeq(s, i, Len(s))
       ELSE IF old = <<>>
            THEN new \o <<s[i]>> \o ReplaceFrom(s, old, new, i + 1, n - 1)
            ELSE IF MatchAt(s, i, old)
                 THEN new \o ReplaceFrom(s, old, new, i + Len(old), n - 1)
                 ELSE <<s[i]>> \o ReplaceFrom(s, old, new, i + 1, n)

Replace(s, old, new, n) == ReplaceFrom(s, old, new, 1, n)

\* What a tool returns: the message with the places of the path and the number
\* it names, that path and number, and the numbered lines shown under it.
FsResult(error, message, path_obj, number, context) ==
  [error |-> error, message |-> message, path |-> path_obj,
   number |-> number, context |-> context]

\* The lines idx - 2 .. idx + 2 (idx counted from 0) with their numbers
\* (counted from 1).
ContextLines(lines, idx) ==
  LET start_idx == IF idx - 2 > 0 THEN idx - 2 ELSE 0
      end_idx == IF idx + 3 < Len(lines) THEN idx + 3 ELSE Len(lines)
  IN  [i \in 1..(end_idx - start_idx) |-> <<start_idx + i, lines[start_idx + i]>>]

\* get_working_dir as the editing tools call it (cwd_fallback=False).
GetWorkingDir(root) ==
  IF root.some
  THEN [error |-> FALSE, path |-> root.val]
  ELSE [error |-> TRUE,
        result |-> FsResult(TRUE, "Error: No working directory configured. Ask the user to set a root directory.",
                            <<>>, None, <<>>)]

\* Mutant of ResolvePath: the path is joined to the root but not resolved
\* before it is compared with the root.
ResolvePath_Unresolved(root, path) ==
  LET working_dir == GetWorkingDir(root)
      resolved_path == IF path.abs THEN path.parts
                       ELSE working_dir.path \o path.parts
  IN  IF working_dir.error THEN working_dir
      ELSE IF ~RelativeTo(resolved_path, working_dir.path)
           THEN [error |-> TRUE,
                 result |-> FsResult(TRUE, "Error: Path must be within the configured root directory: {path}",
                                     resolved_path, None, <<>>)]
           ELSE [error |-> FALSE, path |-> resolved_path]

\* resolve_path as the editing tools call it (cwd_fallback=False): path is
\* [abs |-> is it absolute, parts |-> its parts].
ResolvePath(root, path) ==
  LET working_dir == GetWorkingDir(root)
      resolved_path == IF path.abs THEN Resolve(path.parts)
                       ELSE Resolve(working_dir.path \o path.parts)
  IN  IF working_dir.error THEN working_dir
      ELSE IF ~RelativeTo(resolved_path, working_dir.path)
           THEN [error |-> TRUE,
                 result |-> FsResult(TRUE, "Error: Path must be within the configured root directory: {path}",
                                     resolved_path, None, <<>>)]
           ELSE [error |-> FALSE, path |-> resolved_path]

\* validate_file_for_editing: the resolved path and the file's text, or the
\* error to return.  Every file here is readable text.
ValidateFileForEditing(fs, root, path) ==
  LET resolved_path == ResolvePath(root, path)
  IN  IF resolved_path.error THEN resolved_path
      ELSE IF ~Exists(fs, resolved_path.path)
           THEN [error |-> TRUE,
                 result |-> FsResult(TRUE, "Error: File not found at {path}",
                                     resolved_path.path, None, <<>>)]
           ELSE IF IsDir(fs, resolved_path.path)
                THEN [error |-> TRUE,
                      result |-> FsResult(TRUE, "Error: Cannot edit directory: {path}",
                                          resolved_path.path, None, <<>>)]
                ELSE [error |-> FALSE, path |-> resolved_path.path,
                      content |-> ReadText(fs, resolved_path.path)]

\* insert: new_str becomes a line after line insert_line of the file.
Insert(fs, root, path, insert_line, new_str) ==
  LET validation_result == ValidateFileForEditing(fs, root, path)
      resolved_path == validation_result.path
      lines == Splitlines(validation_result.content)
      at == IF insert_line > Len(lines) THEN Len(lines) ELSE insert_line
      inserted == InsertAt(lines, at, new_str)
  IN  IF validation_result.error
      THEN [fs |-> fs, result |-> validation_result.result]
      ELSE IF insert_line < 0
           THEN [fs |-> fs,
                 result |-> FsResult(TRUE, "Error: insert_line must be >= 0, got {number}",
                                     <<>>, Some(insert_line), <<>>)]
           ELSE [fs |-> WriteText(fs, resolved_path, Join(inserted)),
                 result |-> FsResult(FALSE, "Successfully inserted text at line {number} in {path}:",
                                     resolved_path, Some(at),
                                     ContextLines(inserted, at))]

\* "for i, (old_line, new_line) in enumerate(zip(original_lines, lines,
\* strict=True))" with its break at the first pair that differs: the index it
\* leaves in changed_line_idx, or the ValueError zip raises when one list ends
\* before the other and no pair differed.
FirstChangedLine(original_lines, lines) ==
  LET common == IF Len(original_lines) < Len(lines) THEN Len(original_lines)
                ELSE Len(lines)
      differ == {i \in 1..common : original_lines[i] # lines[i]}
  IN  IF differ # {} THEN [raised |-> FALSE, idx |-> Min(differ) - 1]
      ELSE IF Len(original_lines) # Len(lines) THEN [raised |-> TRUE, idx |-> 0]
           ELSE [raised |-> FALSE, idx |-> 0]

\* str_replace: the file is written before the lines to show are looked for;
\* an exception raised there is reported as an error of the replacement.
StrReplace(fs, root, path, old_str, new_str, replace_all) ==
  LET validation_result == ValidateFileForEditing(fs, root, path)
      resolved_path == validation_result.path
      content == validation_result.content
      occurrence_count == Count(content, old_str)
      new_content == Replace(content, old_str, new_str, IF replace_all THEN -1 ELSE 1)
      replacement_count == IF replace_all THEN occurrence_count ELSE 1
      lines == Splitlines(new_content)
      changed == FirstChangedLine(Splitlines(content), lines)
  IN  IF validation_result.error
      THEN [fs |-> fs, result |-> validation_result.result]
      ELSE IF occurrence_count = 0
           THEN [fs |-> fs,
                 result |-> FsResult(TRUE, "Error: String not found in {path}",
                                     path.parts, None, <<>>)]
           ELSE IF ~replace_all /\ occurrence_count > 1
                THEN [fs |-> fs,
                      result |-> FsResult(TRUE, "Error: replace_all is False, but {number} occurrences were found.",
                                          <<>>, Some(occurrence_count), <<>>)]
                ELSE [fs |-> WriteText(fs, resolved_path, new_content),
                      result |->
                        IF changed.raised
                        THEN FsResult(TRUE, "Error replacing in {path}", path.parts,
                                      None, <<>>)
                        ELSE IF replace_all
                             THEN FsResult(FALSE, "Successfully replaced {number} occurrences in {path}:",
                                           resolved_path, Some(replacement_count),
                                           ContextLines(lines, changed.idx))
                             ELSE FsResult(FALSE, "Successfully replaced text in {path}:",
                                           resolved_path, None,
                                           ContextLines(lines, changed.idx))]

\* Mutant of Create: an existing file is written over.
Create_Overwrites(fs, root, path, file_text) ==
  LET resolved_path == ResolvePath(root, path)
  IN  IF resolved_path.error THEN [fs |-> fs, result |-> resolved_path.result]
      ELSE IF IsDir(fs, resolved_path.path)
           THEN [fs |-> fs,
                 result |-> FsResult(TRUE, "Error: Cannot create file at directory: {path}",
                                     resolved_path.path, None, <<>>)]
           ELSE IF MkdirParentsRaises(fs, resolved_path.path)
                THEN [fs |-> fs,
                      result |-> FsResult(TRUE, "Error creating {path}",
                                          resolved_path.path, None, <<>>)]
                ELSE [fs |-> WriteText(MkdirParents(fs, resolved_path.path),
                                       resolved_path.path, file_text),
                      result |-> FsResult(FALSE, "File successfully created at {path}",
                                          resolved_path.path, None, <<>>)]

\* create: a new file with the given text, its missing parents made first.
Create(fs, root, path, file_text) ==
  LET resolved_path == ResolvePath(root, path)
  IN  IF resolved_path.error THEN [fs |-> fs, result |-> resolved_path.result]
      ELSE IF IsDir(fs, resolved_path.path)
           THEN [fs |-> fs,
                 result |-> FsResult(TRUE, "Error: Cannot create file at directory: {path}",
                                     resolved_path.path, None, <<>>)]
           ELSE IF Exists(fs, resolved_path.path)
                THEN [fs |-> fs,
                      result |-> FsResult(TRUE, "Error: File already exists at {path}",
                                          resolved_path.path, None, <<>>)]
                ELSE IF MkdirParentsRaises(fs, resolved_path.path)
                     THEN [fs |-> fs,
                           result |-> FsResult(TRUE, "Error creating {path}",
                                               resolved_path.path, None, <<>>)]
                     ELSE [fs |-> WriteText(MkdirParents(fs, resolved_path.path),
                                            resolved_path.path, file_text),
                           result |-> FsResult(FALSE, "File successfully created at {path}",
                                               resolved_path.path, None, <<>>)]

\* The paths the tools are called with: inside the root (a file, a directory,
\* a missing file, one with a missing parent, one under a file), and outside it
\* (by "..", through the link, and absolute).
PathInputs ==
  {[abs |-> FALSE, parts |-> <<"a.txt">>],
   [abs |-> FALSE, parts |-> <<"sub">>],
   [abs |-> FALSE, parts |-> <<"sub", "n.txt">>],
   [abs |-> FALSE, parts |-> <<"new", "n.txt">>],
   [abs |-> FALSE, parts |-> <<"a.txt", "n.txt">>],
   [abs |-> FALSE, parts |-> <<"..", "out", "o.txt">>],
   [abs |-> FALSE, parts |-> <<"link", "o.txt">>],
   [abs |-> TRUE, parts |-> <<"work", "sub", "..", "a.txt">>],
   [abs |-> TRUE, parts |-> <<"out", "n.txt">>]}

InitialTexts ==
  {<<"a", "\n", "b", "\n", "a">>, <<"b", "\n", "a">>, <<"a", "\n", "\n">>, <<>>}

OldStrs == {<<"a">>, <<"b">>, <<"c">>}

NewStrs == {<<"x">>, <<"a", "\n", "c">>}

FileTexts == {<<"x">>, <<"y", "\n">>}

InsertLines == {-1, 0, 1, 5}

\* The filesystem as it stands.
FsNow == [files |-> fs_files, dirs |-> fs_dirs]

\* The directories that exist from the start: the root, a directory in it and
\* one outside it.
InitialDirs == {RootDir, <<"work", "sub">>, LinkTarget}

\* The file outside the root that exists from the start.
OutsideFile == <<<<"out", "o.txt">>, <<"s">>>>

\* A server whose client configured the root or none, with one file in the root.
FsInit ==
  /\ IdleExcept("fs")
  /\ fs_root \in {None, Some(RootDir)}
  /\ \E text \in InitialTexts :
       fs_files = {<<<<"work", "a.txt">>, text>>, OutsideFile}
  /\ fs_dirs = InitialDirs
  /\ fs_ops = 0
  /\ fs_last = [tool |-> "none"]

\* A call of a tool: the filesystem and the record of the call afterwards.
FsCall(tool, path, args, done) ==
  /\ fs_ops' = fs_ops + 1
  /\ fs_files' = done.fs.files
  /\ fs_dirs' = done.fs.dirs
  /\ fs_last' = [tool |-> tool, path |-> path, args |-> args, before |-> FsNow,
                 result |-> done.result]
  /\ UNCHANGED fs_root
  /\ Frame("fs")

FsInsert(path, insert_line, new_str) ==
  /\ fs_ops < MaxFsOps
  /\ FsCall("insert", path, [insert_line |-> insert_line, new_str |-> new_str],
            Insert(FsNow, fs_root, path, insert_line, new_str))

FsStrReplace(path, old_str, new_str, replace_all) ==
  /\ fs_ops < MaxFsOps
  /\ FsCall("str_replace", path,
            [old_str |-> old_str, new_str |-> new_str, replace_all |-> replace_all],
            StrReplace(FsNow, fs_root, path, old_str, new_str, replace_all))

FsCreate(path, file_text) ==
  /\ fs_ops < MaxFsOps
  /\ FsCall("create", path, [file_text |-> file_text],
            Create(FsNow, fs_root, path, file_text))

FsNext ==
  \/ \E path \in PathInputs, insert_line \in InsertLines :
       FsInsert(path, insert_line, <<"x">>)
  \/ \E path \in PathInputs, old_str \in OldStrs, new_str \in NewStrs,
        replace_all \in BOOLEAN :
       FsStrReplace(path, old_str, new_str, replace_all)
  \/ \E path \in PathInputs, file_text \in FileTexts : FsCreate(path, file_text)

FsSpec == FsInit /\ [][FsNext]_vars

\* ------------------------------------------------------------- view on its own

\* The directory the server process runs in, used by view when the client
\* configured no root.
Cwd == RootDir

\* get_working_dir as view calls it (cwd_fallback=True).
GetWorkingDirOrCwd(root) == IF root.some THEN root.val ELSE Cwd

\* resolve_path as view calls it (cwd_fallback=True): the resolved path, never
\* compared with the root.
ResolvePathOrCwd(root, path) ==
  IF path.abs THEN Resolve(path.parts)
  ELSE Resolve(GetWorkingDirOrCwd(root) \o path.parts)

\* The names a directory entry can have, in sorted order.
SortedNames == <<"a.txt", "link", "n.txt", "new", "o.txt", "sub">>

\* format_directory_tree(path, max_depth=1): the sorted entries of the
\* directory, each with whether it is shown as a directory.
FormatDirectoryTree(fs, path_obj) ==
  LET entries == SelectSeq(SortedNames,
                   LAMBDA name : \/ Exists(fs, Append(path_obj, name))
                                 \/ Append(path_obj, name) = LinkPath)
  IN  [i \in 1..Len(entries) |->
         <<entries[i], IsDir(fs, Append(path_obj, entries[i]))>>]

\* lines[start_idx:end_idx] for start_idx >= 0: a negative end_idx counts from
\* the end of the list.
Slice(lines, start_idx, end_idx) ==
  LET stop == IF end_idx < 0
              THEN (IF Len(lines) + end_idx > 0 THEN Len(lines) + end_idx ELSE 0)
              ELSE (IF end_idx < Len(lines) THEN end_idx ELSE Len(lines))
  IN  SubSeq(lines, start_idx + 1, stop)

\* view: the numbered lines of a file, all of them or those of view_range
\* (None or Some(<<start_line, end_line>>)), or the entries of a directory.
\* Nothing is written.
View(fs, root, path, view_range) ==
  LET resolved_path == ResolvePathOrCwd(root, path)
      lines == Splitlines(ReadText(fs, resolved_path))
      start_line == view_range.val[1]
      end_line == view_range.val[2]
      start_idx == IF start_line - 1 > 0 THEN start_line - 1 ELSE 0
      end_idx == IF end_line = -1 THEN Len(lines)
                 ELSE IF end_line < Len(lines) THEN end_line ELSE Len(lines)
      selected_lines == IF view_range.some THEN Slice(lines, start_idx, end_idx)
                        ELSE lines
      line_offset == IF view_range.some THEN start_idx ELSE 0
  IN  IF ~Exists(fs, resolved_path)
      THEN FsResult(TRUE, "Error: Path not found: {path}", path.parts, None, <<>>)
      ELSE IF IsDir(fs, resolved_path)
           THEN FsResult(FALSE, "- {path}/", resolved_path, None,
                         FormatDirectoryTree(fs, resolved_path))
           ELSE FsResult(FALSE, "", resolved_path, None,
                         [i \in 1..Len(selected_lines) |->
                            <<line_offset + i, selected_lines[i]>>])

\* The paths view is called with: a file, a directory, a missing file and a
\* file outside the root.
ViewPaths ==
  {[abs |-> FALSE, parts |-> <<"a.txt">>],
   [abs |-> FALSE, parts |-> <<"sub", "..">>],
   [abs |-> FALSE, parts |-> <<"sub", "n.txt">>],
   [abs |-> TRUE, parts |-> <<"out", "o.txt">>]}

ViewRanges ==
  {None} \union {Some(<<start_line, end_line>>) :
                   start_line \in -1..4, end_line \in -2..4}

FsView(path, view_range) ==
  /\ fs_ops < MaxFsOps
  /\ fs_ops' = fs_ops + 1
  /\ fs_last' = [tool |-> "view", path |-> path,
                 args |-> [view_range |-> view_range], before |-> FsNow,
                 result |-> View(FsNow, fs_root, path, view_range)]
  /\ UNCHANGED <<fs_root, fs_files, fs_dirs>>
  /\ Frame("fs")

ViewNext == \E path \in ViewPaths, view_range \in ViewRanges : FsView(path, view_range)

ViewSpec == FsInit /\ [][ViewNext]_vars

\* ------------------------------------------------- a second turn() call at once

\* Agent.turn is an async generator function: each call makes a generator with
\* its own locals (mcp_tools, the loop counter, tool_calls) over the one
\* self.message_history.  The first call is the turn of the actions above; the
\* second call stands at sc_pc.  Its events are yielded to its own consumer and
\* are not recorded.

\* What a step of the second call leaves alone: the locals of the first call and
\* everything outside the agent.
SecondFrame ==
  UNCHANGED <<max_steps, pc, outcome, mcp_tools, step, tool_calls, tc_idx, request,
              tool_request, tool_outcome, events, completions, turn_start,
              outstanding, last_raw, strip_vars, parse_vars, hist_vars, proj_vars,
              two_vars, fs_vars, cli_vars, config_vars>>

SecondUtterances == {<<"and then?">>}

\* Responses and tool outcomes drawn while two calls run.
SecondResponses ==
  { AssistantResponse(Some(TextDone), None),
    AssistantResponse(None, Some(<<CallView>>)) }

SecondToolOutcomes == {Returned(<<TextBlock>>)}

\* The head of "for _ in range(max_steps)" in the second call.
SecondLoopHead(s, h) ==
  IF RangeHasNext(s)
  THEN /\ sc_pc' = "completion"
       /\ sc_request' = Some([messages |-> GetMessages(h),
                              tools |-> [i \in 1..Len(NativeTools) |->
                                           McpToolToOpenai(NativeTools[i])]])
  ELSE /\ sc_pc' = "ended"
       /\ sc_request' = None

\* Mutant of SecondStartTurn: a call made while another turn is running is
\* refused.
SecondStartTurn_Guarded ==
  /\ sc_pc = "idle"
  /\ pc = "idle"
  /\ sc_pc' = "list_tools"
  /\ UNCHANGED <<sc_step, sc_tool_calls, sc_tc_idx, sc_request, history, next_id>>
  /\ SecondFrame

\* turn() is called again and iterated: nothing in it looks at a turn in flight.
SecondStartTurn ==
  /\ sc_pc = "idle"
  /\ sc_pc' = "list_tools"
  /\ UNCHANGED <<sc_step, sc_tool_calls, sc_tc_idx, sc_request, history, next_id>>
  /\ SecondFrame

SecondListToolsReturn ==
  /\ sc_pc = "list_tools"
  /\ \E user_utterance \in SecondUtterances :
       history' = ListAppend(history, Message(next_id, UserParam(user_utterance)))
  /\ next_id' = next_id + 1
  /\ SecondLoopHead(0, history')
  /\ UNCHANGED <<sc_step, sc_tool_calls, sc_tc_idx>>
  /\ SecondFrame

SecondListToolsFail ==
  /\ sc_pc = "list_tools"
  /\ sc_pc' = "ended"
  /\ UNCHANGED <<sc_step, sc_tool_calls, sc_tc_idx, sc_request, history, next_id>>
  /\ SecondFrame

SecondCompletionReturn(response) ==
  /\ sc_pc = "completion"
  /\ LET assistant_response ==
           [response EXCEPT !.content = StripThinking(response.content)]
         projected == CreateAssistantMessageData(assistant_response)
     IN  /\ history' = ListAppend(history, Message(next_id, assistant_response))
         /\ next_id' = next_id + 1
         /\ sc_tool_calls' = OrEmpty(assistant_response.tool_calls)
         /\ sc_pc' = IF projected.raised THEN "ended" ELSE "yield_assistant"
  /\ sc_request' = None
  /\ sc_tc_idx' = 0
  /\ UNCHANGED sc_step
  /\ SecondFrame

SecondCompletionFail ==
  /\ sc_pc = "completion"
  /\ sc_pc' = "ended"
  /\ sc_request' = None
  /\ UNCHANGED <<sc_step, sc_tool_calls, sc_tc_idx, history, next_id>>
  /\ SecondFrame

\* handle_tool_call(sc_tool_calls[i]) up to its await, in the second call.
SecondDispatch(i) ==
  LET tool_call == sc_tool_calls[i]
      tool_args == JsonLoads(tool_call.function.arguments)
  IN  /\ sc_tc_idx' = i
      /\ IF tool_args.kind = "error"
         THEN LET tool_message ==
                    ToolMessageParam(ErrorMessage(tool_call, JSONDecodeError(tool_call.function.arguments)), tool_call)
              IN  /\ history' = ListAppend(history, Message(next_id, tool_message))
                  /\ next_id' = next_id + 1
                  /\ sc_pc' = "yield_tool"
         ELSE /\ sc_pc' = "tool"
              /\ UNCHANGED <<history, next_id>>

SecondResumeAfterAssistant ==
  /\ sc_pc = "yield_assistant"
  /\ IF sc_tool_calls = <<>>
     THEN /\ sc_pc' = "ended"
          /\ UNCHANGED <<sc_tc_idx, history, next_id>>
     ELSE SecondDispatch(1)
  /\ UNCHANGED <<sc_step, sc_tool_calls, sc_request>>
  /\ SecondFrame

SecondToolReturn(o) ==
  /\ sc_pc = "tool"
  /\ LET tool_call == sc_tool_calls[sc_tc_idx]
     IN  IF o.raised /\ ~ExceptException(o.exc)
         THEN /\ sc_pc' = "ended"
              /\ UNCHANGED <<history, next_id>>
         ELSE LET content == IF o.raised THEN ErrorMessage(tool_call, o.exc)
                             ELSE ParseToolCallContent(o.result)
                  tool_message == ToolMessageParam(content, tool_call)
              IN  /\ history' = ListAppend(history, Message(next_id, tool_message))
                  /\ next_id' = next_id + 1
                  /\ sc_pc' = "yield_tool"
  /\ UNCHANGED <<sc_step, sc_tool_calls, sc_tc_idx, sc_request>>
  /\ SecondFrame

SecondResumeAfterTool ==
  /\ sc_pc = "yield_tool"
  /\ IF HasNextToolCall(sc_tc_idx, sc_tool_calls)
     THEN /\ SecondDispatch(sc_tc_idx + 1)
          /\ UNCHANGED <<sc_step, sc_request>>
     ELSE /\ sc_step' = sc_step + 1
          /\ SecondLoopHead(sc_step + 1, history)
          /\ UNCHANGED <<sc_tc_idx, history, next_id>>
  /\ UNCHANGED sc_tool_calls
  /\ SecondFrame

\* The consumer of the second call abandons it.
SecondCancel ==
  /\ sc_pc \in {"list_tools", "completion", "yield_assistant", "tool", "yield_tool"}
  /\ sc_pc' = "ended"
  /\ sc_request' = None
  /\ UNCHANGED <<sc_step, sc_tool_calls, sc_tc_idx, history, next_id>>
  /\ SecondFrame

\* One turn() call on a fresh agent and a second one, made at any moment, each
\* resumed whenever what it awaits comes back.
ReentrantNext ==
  \/ outcome.status = "none" /\ StartTurn
  \/ ListToolsReturn
  \/ ListToolsFail
  \/ \E r \in SecondResponses : CompletionReturn(r)
  \/ \E f \in CompletionFailures : CompletionFail(f)
  \/ ResumeAfterAssistant
  \/ \E o \in SecondToolOutcomes : ToolReturn(o)
  \/ ResumeAfterTool
  \/ Cancel
  \/ SecondStartTurn
  \/ SecondListToolsReturn
  \/ SecondListToolsFail
  \/ \E r \in SecondResponses : SecondCompletionReturn(r)
  \/ SecondCompletionFail
  \/ SecondResumeAfterAssistant
  \/ \E o \in SecondToolOutcomes : SecondToolReturn(o)
  \/ SecondResumeAfterTool
  \/ SecondCancel

ReentrantSpec == Init /\ [][ReentrantNext]_vars

\* ----------------------------------------------------------- terminal front end

\* The fields of UXConfig (cli_ux/config.py) with their defaults.
UxConfig == [number_tool_lines |-> 1]

\* repr() of a str or int that json.loads produced, the JSON token a repr
\* denotes, and the bare text of a str.
ReprToken(t) ==
  CASE t = "\"path\"" -> "'path'"
    [] t = "\".\"" -> "'.'"
    [] t = "\"url\"" -> "'url'"
    [] OTHER -> t

LiteralToken(t) ==
  CASE t = "'path'" -> "\"path\""
    [] t = "'.'" -> "\".\""
    [] t = "'url'" -> "\"url\""
    [] OTHER -> t

BareToken(t) ==
  CASE t \in {"'path'", "\"path\""} -> "path"
    [] t \in {"'.'", "\".\""} -> "."
    [] t \in {"'url'", "\"url\""} -> "url"
    [] OTHER -> t

\* str(tc.args) of a dict: "{'key': value, ...}" as tokens, the members in the
\* dict's insertion order.
RECURSIVE ReprMembers(_)
ReprMembers(pairs) ==
  IF pairs = <<>> THEN <<>>
  ELSE LET p == Head(pairs)
           rest == ReprMembers(Tail(pairs))
       IN  <<ReprToken(p[1]), ":">> \o [k \in 1..Len(p[2]) |-> ReprToken(p[2][k])]
             \o (IF rest = <<>> THEN <<>> ELSE <<",">> \o rest)

PyStr(pairs) == <<"{">> \o ReprMembers(pairs) \o <<"}">>

\* convert_data_to_event
ConvertDataToEvent(data) ==
  IF data.type = "AssistantMessageData"
  THEN [type |-> "AssistantResponseMessage", message |-> data.message,
        tool_calls |-> [i \in 1..Len(data.tool_calls) |->
                          [name |-> data.tool_calls[i].name,
                           id |-> data.tool_calls[i].id,
                           args |-> PyStr(data.tool_calls[i].args)]]]
  ELSE IF data.type = "ToolMessageData"
       THEN [type |-> "ToolMessage", name |-> data.name, id |-> data.id,
             content |-> data.content]
       ELSE [type |-> "AssistantResponseMessage",
             message |-> Some(<<"Something went wrong, no data received from the agent">>),
             tool_calls |-> <<>>]

\* The first n characters of a piece of text that is longer than n.
Prefix(piece, n) ==
  CASE n <= 0 -> ""
    [] piece = "path" -> <<"p", "pa", "pat">>[n]
    [] piece = "url" -> <<"u", "ur">>[n]
    [] piece = "'path'" -> <<"'", "'p", "'pa", "'pat", "'path">>[n]
    [] piece = "'url'" -> <<"'", "'u", "'ur", "'url">>[n]
    [] piece = "'.'" -> <<"'", "'.">>[n]
    [] piece = ", " -> ","
    [] piece = ": " -> ":"

\* str(value) of a value that is not a str, piece by piece: its repr tokens
\* with ", " between items and ": " after a key.
ValueText(value) ==
  [k \in 1..Len(value) |->
     IF value[k] = "," THEN ", " ELSE IF value[k] = ":" THEN ": "
     ELSE ReprToken(value[k])]

RECURSIVE TextLen(_)
TextLen(pieces) ==
  IF pieces = <<>> THEN 0 ELSE Len(Head(pieces)) + TextLen(Tail(pieces))

\* cleaned_value[:n]
RECURSIVE TakeChars(_, _)
TakeChars(pieces, n) ==
  IF pieces = <<>> \/ n <= 0 THEN ""
  ELSE IF Len(Head(pieces)) <= n
       THEN Head(pieces) \o TakeChars(Tail(pieces), n - Len(Head(pieces)))
       ELSE Prefix(Head(pieces), n)

\* cleaned_value, or cleaned_value[:max_arg_value_length] + "..." when it is
\* longer than max_arg_value_length
TruncatedValue(pieces, max_arg_value_length) ==
  IF TextLen(pieces) > max_arg_value_length
  THEN TakeChars(pieces, max_arg_value_length) \o "..."
  ELSE TakeChars(pieces, TextLen(pieces))

\* format_parsed_args: key="value" for a str value, key=value for any other,
\* joined by ", " in parentheses.
RECURSIVE FormatParsedArgs(_, _)
FormatParsedArgs(pairs, max_arg_value_length) ==
  IF pairs = <<>> THEN <<>>
  ELSE LET p == Head(pairs)
           rest == FormatParsedArgs(Tail(pairs), max_arg_value_length)
           is_str == Len(p[2]) = 1 /\ p[2][1] \in JsonStringTokens
           shown == IF is_str
                    THEN "\"" \o TruncatedValue(<<BareToken(p[2][1])>>, max_arg_value_length)
                           \o "\""
                    ELSE TruncatedValue(ValueText(p[2]), max_arg_value_length)
       IN  <<BareToken(p[1]), "=", shown>>
             \o (IF rest = <<>> THEN <<>> ELSE <<",">> \o rest)

\* format_tool_arguments(args, max_arg_value_length) for an args text that
\* str() of a dict of JSON values gives: "()" for no arguments; the text read
\* back by ast.literal_eval and shown argument by argument; "(args)" for a text
\* that is no dict.
FormatToolArguments(args, max_arg_value_length) ==
  IF args = <<>> \/ args = <<"{", "}">> THEN <<"(", ")">>
  ELSE LET parsed == JsonLoads([k \in 1..Len(args) |-> LiteralToken(args[k])])
       IN  IF parsed.kind = "dict"
           THEN IF parsed.pairs = <<>> THEN <<"(", ")">>
                ELSE <<"(">> \o FormatParsedArgs(parsed.pairs, max_arg_value_length)
                       \o <<")">>
           ELSE <<"(">> \o args \o <<")">>

\* _tool_calls_cache[tool_call.id] = tool_call for each call of the event in turn
RECURSIVE CacheCalls(_, _)
CacheCalls(cache, calls) ==
  IF calls = <<>> THEN cache
  ELSE CacheCalls({e \in cache : e[1] # Head(calls).id}
                    \union {<<Head(calls).id, Head(calls)>>}, Tail(calls))

\* _tool_calls_cache.get(id): the ToolCall or None
CacheGet(cache, id) ==
  IF \E e \in cache : e[1] = id
  THEN Some((CHOOSE e \in cache : e[1] = id)[2])
  ELSE None

\* handle_event(event, config): what it leaves in the cache, what it prints (for
\* a tool event the tool's name and its arguments; the lines of the content
\* printed under them are not recorded), or the exception it raises.  ux_config
\* is config.ux_config; reading a field it does not have raises AttributeError.
HandleEvent(cache, event, ux_config) ==
  IF event.type = "UserMessage"
  THEN [cache |-> cache, raised |-> "",
        shown |-> [kind |-> "user", name |-> "", args |-> <<>>]]
  ELSE IF event.type = "AssistantResponseMessage"
       THEN [cache |-> CacheCalls(cache, event.tool_calls), raised |-> "",
             shown |-> [kind |-> "assistant", name |-> "", args |-> <<>>]]
       ELSE LET tool_call == CacheGet(cache, event.id)
            IN  IF ~tool_call.some
                THEN [cache |-> cache, raised |-> "",
                      shown |-> [kind |-> "tool", name |-> event.name,
                                 args |-> <<"(", ")">>]]
                ELSE IF "max_arg_value_length" \notin DOMAIN ux_config
                     THEN [cache |-> cache, raised |-> "AttributeError",
                           shown |-> [kind |-> "none", name |-> "", args |-> <<>>]]
                     ELSE [cache |-> cache, raised |-> "",
                           shown |-> [kind |-> "tool", name |-> event.name,
                                      args |-> FormatToolArguments(
                                                 tool_call.val.args,
                                                 ux_config.max_arg_value_length)]]

\* What handle_event did is taken over into the state.
CliHandled(done) ==
  /\ cl_cache' = done.cache
  /\ cl_shown' = done.shown
  /\ cl_raised' = done.raised
  /\ cl_at' = Len(history)
  /\ Frame("cli")
  /\ UNCHANGED agent_vars

\* process_user_message has published the UserMessage event and has not yet
\* called agent.turn with the message.
CliCallPending ==
  /\ pc = "idle"
  /\ outcome.status \in {"none", "returned"}
  /\ cl_raised = ""
  /\ cl_shown.kind = "user"
  /\ cl_at = Len(history)

\* process_user_message, up to the call of agent.turn: the UserMessage event is
\* published and handled.  The chat loop is at its prompt: no turn was made yet
\* or the last one returned, with or without events; an exception or an
\* interrupt out of a turn ends the chat loop.
CliEmitUserMessage ==
  /\ pc = "idle"
  /\ outcome.status \in {"none", "returned"}
  /\ cl_raised = ""
  /\ ~CliCallPending
  /\ CliHandled(HandleEvent(cl_cache, [type |-> "UserMessage"], UxConfig))

\* The body of "async for event in agent.turn(user_input)": the event just
\* yielded is converted, published and handled before the turn is resumed.
CliHandleEvent ==
  /\ pc \in {"yield_assistant", "yield_tool"}
  /\ cl_raised = ""
  /\ cl_at # Len(history)
  /\ CliHandled(HandleEvent(cl_cache, ConvertDataToEvent(events[Len(events)]),
                            UxConfig))

\* The turn as the front end drives it: it is started after the UserMessage
\* event, resumed after the yielded event was handled, and left where it stands
\* when handle_event raised.
CliTurnReady ==
  /\ cl_raised = ""
  /\ pc = "idle" => CliCallPending
  /\ pc \in {"yield_assistant", "yield_tool"} => cl_at = Len(history)

\* "async for" asks the turn for its next event: the turn is resumed from the
\* yield it stands at, which the loop does only when handle_event returned.
CliRequestNextEvent ==
  CliTurnReady /\ (ResumeAfterAssistant \/ ResumeAfterTool)

\* ctrl+c while the turn runs: the task is cancelled where it waits, which is at
\* an await of the turn (list_tools, the completion, call_tool) or at the
\* sleep(0) after a handled event; the turn is closed and the chat ends.
CliInterrupt ==
  /\ cl_raised = ""
  /\ pc \in {"yield_assistant", "yield_tool"} => cl_at = Len(history)
  /\ Cancel

\* handle_event raised: the exception leaves the loop and the turn, suspended at
\* its yield, is closed.
CliCloseTurn == cl_raised # "" /\ Cancel

CliNext ==
  \/ CliEmitUserMessage
  \/ CliHandleEvent
  \/ CliTurnReady /\ StartTurn
  \/ CliTurnReady /\ ListToolsReturn
  \/ CliTurnReady /\ ListToolsFail
  \/ CliTurnReady /\ \E r \in Responses : CompletionReturn(r)
  \/ CliTurnReady /\ \E f \in CompletionFailures : CompletionFail(f)
  \/ CliTurnReady /\ \E o \in ToolOutcomes("view") \union ToolOutcomes("fetch") :
                       ToolReturn(o)
  \/ CliRequestNextEvent
  \/ CliInterrupt
  \/ CliCloseTurn

CliSpec == Init /\ [][CliNext]_vars

\* ------------------------------------------------------------ configuration file

MaxConfigOps == 3

\* A line of a YAML text: "key: value" at an indentation, "key:" (value "")
\* opening a nested mapping, "- value" (key "-"), a bare scalar (key "") or a
\* comment (key "#").
YamlLine(indent, key, value) == [indent |-> indent, key |-> key, value |-> value]

\* The type the YAML resolver gives a plain scalar.
ScalarType(value) ==
  CASE value \in {"25", "5", "3", "1", "0"} -> "int"
    [] value = "0.1" -> "float"
    [] value = "null" -> "null"
    [] OTHER -> "str"

IntOf(value) ==
  CASE value = "25" -> 25
    [] value = "5" -> 5
    [] value = "3" -> 3
    [] value = "1" -> 1
    [] OTHER -> 0

StrOf(n) ==
  CASE n = 25 -> "25"
    [] n = 5 -> "5"
    [] n = 3 -> "3"
    [] n = 1 -> "1"
    [] OTHER -> "0"

\* yaml.safe_load of a text: None for a text without a document, a scalar, a
\* list, or a mapping given as its entries (path of keys, scalar), or YAMLError
\* for a flow sequence that is not closed.
SafeLoad(text) ==
  LET lines == SelectSeq(text, LAMBDA l : l.key # "#")
      parent(i) == LET tops == {j \in 1..(i - 1) : lines[j].indent = 0}
                   IN  lines[CHOOSE j \in tops : \A k \in tops : k <= j].key
      opens(i) == /\ lines[i].value = ""
                  /\ i < Len(lines)
                  /\ lines[i + 1].indent > 0
      entry(i) == IF lines[i].indent = 0
                  THEN [path |-> <<lines[i].key>>,
                        value |-> IF lines[i].value = "" THEN "null" ELSE lines[i].value]
                  ELSE [path |-> <<parent(i), lines[i].key>>, value |-> lines[i].value]
  IN  IF lines = <<>> THEN [kind |-> "none", entries |-> {}, value |-> ""]
      ELSE IF \E i \in 1..Len(lines) : lines[i].value = "["
           THEN [kind |-> "error", entries |-> {}, value |-> "YAMLError"]
           ELSE IF lines[1].key = "-"
                THEN [kind |-> "list", entries |-> {}, value |-> ""]
                ELSE IF lines[1].key = ""
                     THEN [kind |-> "scalar", entries |-> {}, value |-> lines[1].value]
                     ELSE [kind |-> "dict", value |-> "",
                           entries |-> {entry(i) : i \in {j \in 1..Len(lines) : ~opens(j)}}]

\* "not config_data"
Falsy(data) ==
  \/ data.kind = "none"
  \/ data.kind = "scalar" /\ data.value \in {"0", "null", ""}
  \/ data.kind = "dict" /\ data.entries = {}

\* CLIConfig(): the defaults of the fields.
CLIConfigDefault ==
  [version |-> "0.1.0",
   agent_config |-> [max_steps |-> 25],
   ux_config |-> [number_tool_lines |-> 1]]

\* The value the mapping gives under a path of keys, if it gives one.
Lookup(data, path) ==
  IF \E e \in data.entries : e.path = path
  THEN Some((CHOOSE e \in data.entries : e.path = path).value)
  ELSE None

\* CLIConfig(**config_data): a field the mapping does not give takes its
\* default, a key that is no field is ignored, a value of the wrong type is a
\* ValidationError, and data that is no mapping is a TypeError.  Of agent_config
\* only max_steps is followed.
Validate(data) ==
  LET version == Lookup(data, <<"version">>)
      max_steps_given == Lookup(data, <<"agent_config", "max_steps">>)
      lines_given == Lookup(data, <<"ux_config", "number_tool_lines">>)
      bad == \/ version.some /\ ScalarType(version.val) # "str"
             \/ Lookup(data, <<"agent_config">>).some
             \/ Lookup(data, <<"ux_config">>).some
             \/ max_steps_given.some /\ ScalarType(max_steps_given.val) # "int"
             \/ lines_given.some /\ ScalarType(lines_given.val) # "int"
  IN  IF data.kind # "dict"
      THEN [raised |-> TRUE, error |-> "TypeError", config |-> CLIConfigDefault]
      ELSE IF bad
           THEN [raised |-> TRUE, error |-> "ValidationError", config |-> CLIConfigDefault]
           ELSE [raised |-> FALSE, error |-> "",
                 config |->
                   [version |-> IF version.some THEN version.val
                                ELSE CLIConfigDefault.version,
                    agent_config |->
                      [max_steps |-> IF max_steps_given.some THEN IntOf(max_steps_given.val)
                                     ELSE CLIConfigDefault.agent_config.max_steps],
                    ux_config |->
                      [number_tool_lines |->
                         IF lines_given.some THEN IntOf(lines_given.val)
                         ELSE CLIConfigDefault.ux_config.number_tool_lines]]]

\* yaml.safe_dump(config.model_dump(), default_flow_style=False, sort_keys=False)
SafeDump(config) ==
  << YamlLine(0, "version", config.version),
     YamlLine(0, "agent_config", ""),
     YamlLine(2, "max_steps", StrOf(config.agent_config.max_steps)),
     YamlLine(0, "ux_config", ""),
     YamlLine(2, "number_tool_lines", StrOf(config.ux_config.number_tool_lines)) >>

\* save_config(config) on a writable config directory: the file as it is after.
SaveConfig(config) == Some(SafeDump(config))

\* create_default_config()
CreateDefaultConfig == [returned |-> CLIConfigDefault, file |-> SaveConfig(CLIConfigDefault)]

\* Mutant of LoadConfig: the version of the file is not compared.
LoadConfig_AnyVersion(file) ==
  IF ~file.some THEN CreateDefaultConfig
  ELSE LET config_data == SafeLoad(file.val)
       IN  IF config_data.kind = "error" \/ Falsy(config_data) THEN CreateDefaultConfig
           ELSE LET config == Validate(config_data)
                IN  IF config.raised THEN CreateDefaultConfig
                    ELSE [returned |-> config.config, file |-> file]

\* load_config() with the config file as given: the configuration it returns
\* and the file as it is after the call.
LoadConfig(file) ==
  IF ~file.some THEN CreateDefaultConfig
  ELSE LET config_data == SafeLoad(file.val)
       IN  IF config_data.kind = "error" THEN CreateDefaultConfig
           ELSE IF Falsy(config_data) THEN CreateDefaultConfig
           ELSE LET config == Validate(config_data)
                IN  IF config.raised THEN CreateDefaultConfig
                    ELSE IF config.config.version # CLIConfigDefault.version
                         THEN CreateDefaultConfig
                         ELSE [returned |-> config.config, file |-> file]

\* Config files a user may have: valid ones of the current version ...
DocCustom ==
  << YamlLine(0, "#", "tinkertasker"),
     YamlLine(0, "version", "0.1.0"),
     YamlLine(0, "agent_config", ""),
     YamlLine(2, "max_steps", "5"),
     YamlLine(0, "ux_config", ""),
     YamlLine(2, "number_tool_lines", "3") >>

DocNoVersion ==
  << YamlLine(0, "ux_config", ""), YamlLine(2, "number_tool_lines", "3") >>

DocExtraKey ==
  << YamlLine(0, "version", "0.1.0"), YamlLine(0, "theme", "dark") >>

ValidDocs == {SafeDump(CLIConfigDefault), DocCustom, DocNoVersion, DocExtraKey}

\* ... files of another version ...
DocOldVersion ==
  << YamlLine(0, "version", "0.0.9"),
     YamlLine(0, "agent_config", ""),
     YamlLine(2, "max_steps", "5"),
     YamlLine(0, "ux_config", ""),
     YamlLine(2, "number_tool_lines", "3") >>

OtherVersionDocs == {DocOldVersion}

\* ... empty files ...
EmptyDocs == {<<>>, <<YamlLine(0, "#", "tinkertasker")>>}

\* ... and invalid ones: broken YAML, no mapping, fields of the wrong type.
InvalidDocs ==
  { <<YamlLine(0, "version", "[")>>,
    <<YamlLine(0, "-", "dark")>>,
    <<YamlLine(0, "", "0")>>,
    <<YamlLine(0, "", "dark")>>,
    <<YamlLine(0, "version", "0.1")>>,
    <<YamlLine(0, "version", "0.1.0"), YamlLine(0, "ux_config", "")>>,
    <<YamlLine(0, "version", "0.1.0"), YamlLine(0, "ux_config", ""),
      YamlLine(2, "number_tool_lines", "many")>> }

ConfigDocs == ValidDocs \union OtherVersionDocs \union EmptyDocs \union InvalidDocs

ConfigInit ==
  /\ cf_file \in {None} \union {Some(doc) : doc \in ConfigDocs}
  /\ cf_ops = 0
  /\ cf_last = [op |-> "none"]
  /\ IdleExcept("config")

\* The program starts and calls load_config().
ConfigLoad ==
  /\ cf_ops < MaxConfigOps
  /\ LET done == LoadConfig(cf_file)
     IN  /\ cf_file' = done.file
         /\ cf_last' = [op |-> "load", before |-> cf_file, returned |-> done.returned]
  /\ cf_ops' = cf_ops + 1
  /\ Frame("config")

\* Between two runs the user edits or removes the file.
ConfigEdit ==
  /\ cf_ops < MaxConfigOps
  /\ cf_file' \in {None} \union {Some(doc) : doc \in ConfigDocs}
  /\ cf_file' # cf_file
  /\ cf_last' = [op |-> "edit"]
  /\ cf_ops' = cf_ops + 1
  /\ Frame("config")

ConfigNext == ConfigLoad \/ ConfigEdit

ConfigSpec == ConfigInit /\ [][ConfigNext]_vars

\* ------------------------------------------------------------------- claims

Param(i) == history[i].chat_completion_message_param

IsPrefix(s, t) == Len(s) <= Len(t) /\ \A i \in 1..Len(s) : s[i] = t[i]

\* Indices in history of the assistant messages of the current turn.
TurnAssistants ==
  IF turn_start = 0 THEN {}
  ELSE {i \in (turn_start + 1)..Len(history) : Param(i).role = "assistant"}

CallsOf(i) == OrEmpty(Param(i).tool_calls)

\* The k tool results of the assistant message at index i follow it, in the
\* order of its requests, and no further tool result follows them.
HasItsResults(i) ==
  LET k == Len(CallsOf(i))
  IN  /\ i + k <= Len(history)
      /\ \A j \in 1..k :
           /\ Param(i + j).role = "tool"
           /\ Param(i + j).tool_call_id = CallsOf(i)[j].id
      /\ i + k + 1 <= Len(history) => Param(i + k + 1).role # "tool"

\* C1: whenever a completion request of a turn is in flight, every assistant
\* message of that turn with k requested tool invocations is followed in the
\* history by exactly k tool results, in the order of the requests.
C1_ResultsBeforeNextCompletion ==
  pc = "completion" => \A i \in TurnAssistants : HasItsResults(i)

C1_Witness ==
  /\ pc = "completion"
  /\ \E i \in TurnAssistants : Len(CallsOf(i)) = 2 /\ HasItsResults(i)

\* Position in events of the message at index i of the history, were every
\* message of the turn after the user message yielded as one event.
EventPos(i) == i - turn_start

\* C2: every completion response of the turn has exactly one Assistant Event, at
\* its place in the stream, followed by the Tool Events of its tool results in
\* the order requested; the events are one per message and all of a response's
\* tool events are there when the next completion request is in flight.
C2_StrictEmissionOrder ==
  turn_start > 0 =>
    /\ Len(events) = Len(history) - turn_start
    /\ \A i \in (turn_start + 1)..Len(history) :
         EventPos(i) <= Len(events) =>
           IF Param(i).role = "assistant"
           THEN /\ events[EventPos(i)].type = "AssistantMessageData"
                /\ events[EventPos(i)].message = Param(i).content
           ELSE /\ events[EventPos(i)].type = "ToolMessageData"
                /\ events[EventPos(i)].id = Param(i).tool_call_id
    /\ pc = "completion" => \A i \in TurnAssistants : HasItsResults(i)

ErrorPrefix == "Error executing tool call '"

\* The tool message and the tool event of the tool call at tc_idx are the last
\* message and the last event, and carry the error text naming the tool.
LastIsErrorResult ==
  LET tool_call == tool_calls[tc_idx]
      ev == events[Len(events)]
      msg == Param(Len(history))
  IN  /\ Len(events) >= 2
      /\ ev.type = "ToolMessageData"
      /\ ev.name = tool_call.function.name
      /\ ev.id = tool_call.id
      /\ ev.content # <<>>
      /\ ev.content[1] = ErrorPrefix
      /\ ev.content[2] = tool_call.function.name
      /\ msg.role = "tool"
      /\ msg.tool_call_id = tool_call.id
      /\ msg.content = ev.content

ToolRaised == tool_outcome.some /\ tool_outcome.val.raised

\* C3: when call_tool raises (a tool error or a timeout), turn() does not raise:
\* in that step exactly one tool result is appended and exactly one Tool Event is
\* yielded, with the error text naming the tool, and the turn then goes on to the
\* next tool call, the next completion request or its normal end.
C3_SoftToolFailure ==
  /\ [](ToolRaised => /\ pc = "yield_tool"
                       /\ outcome.status = "running"
                       /\ LastIsErrorResult)
  /\ [][(~ToolRaised /\ ToolRaised') =>
          /\ Len(history') = Len(history) + 1
          /\ Len(events') = Len(events) + 1]_vars
  /\ [][(ToolRaised /\ pc' # pc) =>
          /\ pc' \in {"tool", "completion", "idle"}
          /\ outcome'.status # "raised"]_vars

C3_Witness ==
  /\ pc = "yield_tool"
  /\ tool_outcome = Some(Raised(ToolTimeout))
  /\ LastIsErrorResult

Undecodable(call) == JsonLoads(call.function.arguments).kind = "error"

\* C4: a requested tool invocation whose arguments do not parse does not make
\* turn() raise; when the turn has gone past it (the next completion request is
\* in flight, or the turn returned) its error result is in the history.
C4_DecodeErrorIsLocal ==
  \A i \in TurnAssistants :
    (\E j \in 1..Len(CallsOf(i)) : Undecodable(CallsOf(i)[j])) =>
      /\ ~(outcome.status = "raised" /\ outcome.error \notin CompletionFailures)
      /\ (pc = "completion" \/ outcome.status = "returned") => HasItsResults(i)

\* C5: a turn issues at most max_steps completion requests, and a turn in
\* flight whose awaited calls all come back ends.
C5_Terminates ==
  /\ [](completions <= max_steps)
  /\ [](pc # "idle" => <>(pc = "idle"))

C5_Witness ==
  /\ pc = "idle"
  /\ outcome = ReturnedNormally
  /\ max_steps = 2
  /\ completions = max_steps
  /\ Len(events) = 4

\* C6: a turn() call that returns has yielded at least one Assistant Event.
C6_AtLeastOneAssistantEvent ==
  (pc = "idle" /\ outcome.status = "returned") =>
    \E i \in 1..Len(events) : events[i].type = "AssistantMessageData"

\* C7: every step of the agent leaves the history it found as a prefix of the
\* history it leaves, so the history before a turn is a prefix of the history
\* after it, however the turn ends.
C7_AppendOnly == [][IsPrefix(history, history')]_vars

C7_Witness ==
  /\ pc = "idle"
  /\ outcome.status \in {"cancelled", "raised"}
  /\ turn_start >= 3
  /\ Len(history) >= turn_start + 2

\* C8: the first message of the history is the system message created at
\* construction.
C8_SystemMessageFirst ==
  /\ Len(history) >= 1
  /\ history[1] = Message(1, SystemParam)
  /\ \A i \in 2..Len(history) : history[i].message_id # 1

C8_Witness ==
  /\ Len(history) >= 5
  /\ turn_start >= 3
  /\ Param(1).role = "system"

\* Index of the last assistant message of the turn (0: none).
LastAssistant == IF TurnAssistants = {} THEN 0 ELSE CHOOSE i \in TurnAssistants :
                                                   \A j \in TurnAssistants : j <= i

\* C9: only the last response of a turn may carry zero tool invocations, after
\* its Assistant Event nothing more is requested or yielded, and a turn that has
\* ended (not by cancellation) after a response with tool invocations has issued
\* a further completion request or has used its max_steps requests.
C9_EndsAtFirstPlainResponse ==
  /\ \A i \in TurnAssistants : i # LastAssistant => CallsOf(i) # <<>>
  /\ (LastAssistant # 0 /\ CallsOf(LastAssistant) = <<>>) =>
       /\ pc \in {"yield_assistant", "idle"}
       /\ Len(history) = LastAssistant
       /\ events[Len(events)].type = "AssistantMessageData"
  /\ (/\ pc = "idle"
      /\ outcome.status \in {"returned", "raised"}
      /\ LastAssistant # 0
      /\ CallsOf(LastAssistant) # <<>>) =>
       \/ completions > Cardinality(TurnAssistants)
       \/ completions = max_steps

\* C10: a turn in which each of max_steps completion responses requested one
\* tool call ends by returning, having yielded max_steps Assistant Events and
\* max_steps Tool Events.
C10_BudgetExhaustion ==
  (/\ pc = "idle"
   /\ outcome.status \in {"returned", "raised"}
   /\ turn_start > 0
   /\ Cardinality(TurnAssistants) = max_steps
   /\ \A i \in TurnAssistants : Len(CallsOf(i)) = 1) =>
    /\ outcome.status = "returned"
    /\ Cardinality({i \in 1..Len(events) : events[i].type = "AssistantMessageData"})
         = max_steps
    /\ Cardinality({i \in 1..Len(events) : events[i].type = "ToolMessageData"})
         = max_steps
    /\ \A i \in TurnAssistants : HasItsResults(i)

\* turn() has raised what the completion request raised, or what reading a
\* response without choices or without a message raised.
CompletionFailed == outcome.status = "raised" /\ outcome.error \in CompletionFailures

AssistantEvents == {i \in 1..Len(events) : events[i].type = "AssistantMessageData"}

\* C11: when a completion request fails or its response is malformed or empty,
\* turn() ends abnormally and that request leaves nothing behind: the step keeps
\* the history and the events as they were, so the turn has one assistant message
\* and one Assistant Event for each earlier request and none for the failed one,
\* and the user message and all earlier messages of the turn stay.
C11_FailedCompletionAddsNothing ==
  /\ [](CompletionFailed =>
          /\ pc = "idle"
          /\ Param(turn_start).role = "user"
          /\ Cardinality(TurnAssistants) = completions - 1
          /\ Cardinality(AssistantEvents) = completions - 1
          /\ Len(history) = turn_start + Len(events))
  /\ [][(pc = "completion" /\ outcome'.status = "raised"
           /\ outcome'.error \in CompletionFailures)
          => history' = history /\ events' = events]_vars

\* A response without choices fails the second request of a turn whose first
\* step ran two tools.
C11_Witness ==
  /\ CompletionFailed
  /\ outcome.error = "IndexError"
  /\ completions = 2
  /\ Len(history) = turn_start + 3
  /\ Len(events) = 3

\* C12: turn() ends abnormally only if a completion request failed; no failure
\* of tool discovery, of decoding a tool call's arguments, of running a tool or
\* of projecting a tool call into an event makes it raise.
C12_OnlyCompletionFailuresFatal ==
  outcome.status = "raised" => outcome.error \in CompletionFailures

\* C13: turn() awaits one call at a time.  At most one call is outstanding, so
\* never two completion requests, never two tool invocations and never one of
\* each; the outstanding call is the completion request or the tool invocation
\* the turn waits on; and a tool invocation is outstanding only when every
\* earlier invocation of the same response has returned and left its result.
C13_SequentialPipeline ==
  /\ Len(outstanding) <= 1
  /\ ~(request.some /\ tool_request.some)
  /\ request.some <=> outstanding = <<CompletionCall>>
  /\ request.some <=> pc = "completion"
  /\ tool_request.some <=> pc = "tool"
  /\ pc = "tool" =>
       /\ outstanding = <<ToolCallCall(tool_calls[tc_idx])>>
       /\ Len(history) = LastAssistant + tc_idx - 1
       /\ \A j \in 1..(tc_idx - 1) :
            /\ Param(LastAssistant + j).role = "tool"
            /\ Param(LastAssistant + j).tool_call_id = tool_calls[j].id

\* The second tool invocation of a response is outstanding, alone.
C13_Witness ==
  /\ pc = "tool"
  /\ tc_idx = 2
  /\ outstanding = <<ToolCallCall(CallFetch)>>
  /\ Param(Len(history)).role = "tool"
  /\ Param(Len(history)).tool_call_id = CallView.id

\* A message of the history is whole: an id, a timestamp and a chat message with
\* the fields of its role.
WholeMessage(m) ==
  /\ DOMAIN m = {"message_id", "timestamp", "chat_completion_message_param"}
  /\ LET p == m.chat_completion_message_param
     IN  \/ p.role \in {"system", "user"} /\ DOMAIN p = {"role", "content"}
         \/ p.role = "assistant" /\ DOMAIN p = {"role", "content", "tool_calls"}
         \/ p.role = "tool" /\ DOMAIN p = {"role", "content", "tool_call_id"}

\* C14: after a turn was cancelled, between two events or while a completion
\* request or a tool invocation was in flight, every message of the history is
\* whole, the turn's user message is still there, and the history can be the
\* context of a later completion request: every tool invocation requested by an
\* assistant message of the cancelled turn has its tool result.
C14_CancelKeepsHistoryReplayable ==
  outcome.status = "cancelled" =>
    /\ \A i \in 1..Len(history) : WholeMessage(history[i])
    /\ turn_start > 0 => Param(turn_start).role = "user"
    /\ \A i \in TurnAssistants : HasItsResults(i)

\* The result of the j-th tool invocation of the last response is in the history
\* and its Tool Event is in the stream, n results of that response being there.
ResultStreamed(j, n) ==
  LET msg == Param(LastAssistant + j)
      ev == events[Len(events) - n + j]
  IN  /\ msg.role = "tool"
      /\ msg.tool_call_id = tool_calls[j].id
      /\ ev.type = "ToolMessageData"
      /\ ev.id = tool_calls[j].id
      /\ ev.content = msg.content

\* C15: when the tool invocation i+1 of a response is dispatched, the results of
\* invocations 1..i are the last i messages of the history and their Tool Events
\* are the last i events of the stream, after the response's Assistant Event; and
\* while the consumer holds the Tool Event of invocation i, no later invocation
\* is outstanding.
C15_ToolEventsStreamed ==
  /\ pc = "tool" =>
       /\ Len(history) = LastAssistant + tc_idx - 1
       /\ Len(events) >= tc_idx
       /\ events[Len(events) - tc_idx + 1].type = "AssistantMessageData"
       /\ \A j \in 1..(tc_idx - 1) : ResultStreamed(j, tc_idx - 1)
  /\ pc = "yield_tool" =>
       /\ Len(history) = LastAssistant + tc_idx
       /\ Len(events) > tc_idx
       /\ \A j \in 1..tc_idx : ResultStreamed(j, tc_idx)
       /\ outstanding = <<>>

\* The second invocation of a response is outstanding and the consumer has the
\* Tool Event of the first.
C15_Witness ==
  /\ pc = "tool"
  /\ tc_idx = 2
  /\ events[Len(events)].type = "ToolMessageData"
  /\ events[Len(events)].id = CallView.id
  /\ Param(Len(history)).tool_call_id = CallView.id

\* C16: a completion request in flight carries the whole history as it stood when
\* the request was issued, message for message in insertion order: the system
\* message first, then the messages of earlier turns, the user message of this
\* turn and the messages of its earlier steps; and it carries the tool
\* descriptors of this turn.
C16_RequestCarriesWholeHistory ==
  pc = "completion" =>
    /\ request.some
    /\ Len(request.val.messages) = Len(history)
    /\ \A i \in 1..Len(history) : request.val.messages[i] = Param(i)
    /\ request.val.messages[1] = SystemParam
    /\ request.val.messages[turn_start].role = "user"
    /\ request.val.tools = mcp_tools

\* A request of a turn that follows a budget-exhausted turn (max_steps = 1, its
\* one response asked for a tool): it carries the system message, the earlier
\* turn's user message, assistant message and the tool result left at its end,
\* and this turn's user message.
C16_Witness ==
  /\ pc = "completion"
  /\ max_steps = 1
  /\ turn_start = 5
  /\ Len(request.val.messages) = 5
  /\ request.val.messages[2].role = "user"
  /\ request.val.messages[3].role = "assistant"
  /\ request.val.messages[3].tool_calls = Some(<<CallView>>)
  /\ request.val.messages[4].role = "tool"
  /\ request.val.messages[4].tool_call_id = CallView.id
  /\ request.val.messages[5].role = "user"

\* C17: the tool that is invoked is the one the request names, and the result of
\* the request, whether call_tool returned or raised, carries the request's id:
\* the tool message has it as tool_call_id, and the Tool Event has it as id next
\* to the name of the requested tool and the content of the tool message.
C17_ResultCarriesRequestId ==
  /\ pc = "tool" => tool_request.val.name = tool_calls[tc_idx].function.name
  /\ pc = "yield_tool" =>
       LET tool_call == tool_calls[tc_idx]
           msg == Param(Len(history))
           ev == events[Len(events)]
       IN  /\ msg.role = "tool"
           /\ msg.tool_call_id = tool_call.id
           /\ ev.type = "ToolMessageData"
           /\ ev.id = tool_call.id
           /\ ev.name = tool_call.function.name
           /\ ev.content = msg.content

\* The second invocation of a response has raised after the first one returned:
\* both results are in the history.
C17_Witness ==
  /\ pc = "yield_tool"
  /\ tc_idx = 2
  /\ ToolRaised
  /\ Param(Len(history)).tool_call_id = CallFetch.id
  /\ Param(Len(history) - 1).tool_call_id = CallView.id
  /\ Param(Len(history) - 1).content = TextBlock.text

\* C18: strip_thinking is idempotent: applied to its own result it returns that
\* result, for every text, those included in which the removal of one segment
\* joins the characters around it into a new pair of markers.
C18_StripIdempotent ==
  Len(st_results) >= 2 => st_results[2] = st_results[1]

\* No start marker of s has an end marker behind it.
NoMarkerPair(s) ==
  \A i \in 1..Len(s), j \in 1..Len(s) :
    ~(/\ i + Len(ThinkOpen) <= j
      /\ j + Len(ThinkClose) - 1 <= Len(s)
      /\ SubSeq(s, i, i + Len(ThinkOpen) - 1) = ThinkOpen
      /\ SubSeq(s, j, j + Len(ThinkClose) - 1) = ThinkClose)

\* r is t without the whitespace at its two ends.
IsTrimOf(r, t) ==
  /\ r = <<>> \/ (r[1] \notin Whitespace /\ r[Len(r)] \notin Whitespace)
  /\ \E a \in 0..Len(t) :
       /\ a + Len(r) <= Len(t)
       /\ SubSeq(t, a + 1, a + Len(r)) = r
       /\ \A i \in 1..a : t[i] \in Whitespace
       /\ \A i \in (a + Len(r) + 1)..Len(t) : t[i] \in Whitespace

\* C19: strip_thinking returns an absent text as absent and the empty text as
\* empty, and a text without a start marker followed by an end marker comes back
\* unchanged but for the whitespace at its two ends.
C19_StripLeavesPlainText ==
  Len(st_results) >= 1 =>
    /\ ~st_text.some => st_results[1] = None
    /\ st_text = Some(<<>>) => st_results[1] = Some(<<>>)
    /\ (st_text.some /\ NoMarkerPair(st_text.val)) =>
         /\ st_results[1].some
         /\ IsTrimOf(st_results[1].val, st_text.val)

\* An end marker before a start marker, with whitespace around them, has been
\* stripped: the markers stay and the whitespace is gone.
C19_Witness ==
  /\ st_text = Some(<<" ">> \o ThinkClose \o ThinkOpen \o <<" ">>)
  /\ Len(st_results) >= 1
  /\ st_results[1] = Some(ThinkClose \o ThinkOpen)

\* The text raw, as the backend sent it, is nowhere the consumer or a backend
\* can see it: in no message of the history, in no Assistant Event, and in no
\* message of a completion request in flight.
RawNowhere(raw) ==
  /\ \A i \in 1..Len(history) : Param(i).content # raw
  /\ \A i \in AssistantEvents : events[i].message # raw
  /\ request.some =>
       \A i \in 1..Len(request.val.messages) : request.val.messages[i].content # raw

\* C20: after a completion response, the content of the assistant message that
\* was appended for it is the response's content put through strip_thinking, the
\* text of its Assistant Event, when one was emitted, is that same content, and a
\* response with reasoning markup is stored as the text behind the markup while
\* the text as sent is in no message, no event and no later request.
C20_StrippedBeforeStoredOrEmitted ==
  last_raw.some =>
    /\ Param(LastAssistant).role = "assistant"
    /\ Param(LastAssistant).content = StripThinking(last_raw.val)
    /\ EventPos(LastAssistant) <= Len(events) =>
         /\ events[EventPos(LastAssistant)].type = "AssistantMessageData"
         /\ events[EventPos(LastAssistant)].message = Param(LastAssistant).content
    /\ last_raw.val = Some(TextThinkDone) =>
         /\ Param(LastAssistant).content = Some(TextDone)
         /\ RawNowhere(last_raw.val)

\* The second request of a turn is in flight after a first response with
\* reasoning markup: history, event and request hold the stripped text.
C20_Witness ==
  /\ pc = "completion"
  /\ completions = 2
  /\ last_raw = Some(Some(TextThinkDone))
  /\ Param(LastAssistant).content = Some(TextDone)
  /\ events[EventPos(LastAssistant)].message = Some(TextDone)
  /\ request.val.messages[LastAssistant].content = Some(TextDone)

\* C21: parse_tool_call_content gives a text for every tool response: the fixed
\* placeholder for a response without blocks, the first block's text when the
\* first block is a text block, and otherwise a fallback naming the type of the
\* first block; the blocks behind the first one change nothing.
C21_ParseToolCallContent ==
  pt_content.some =>
    /\ pt_result = <<>> => pt_content.val = <<"Tool executed but returned no result.">>
    /\ (pt_result # <<>> /\ pt_result[1].type = "TextContent") =>
         pt_content.val = pt_result[1].text
    /\ (pt_result # <<>> /\ pt_result[1].type # "TextContent") =>
         /\ Len(pt_content.val) = 3
         /\ pt_content.val[1] = "Tool returned "
         /\ pt_content.val[2] = pt_result[1].type
         /\ pt_content.val[3] =
              " which is not supported. Tell the user their MCP server is not supported yet."

\* A response whose first block is an image and whose second is a text has got
\* the fallback for the image.
C21_Witness ==
  /\ pt_result = <<ImageBlock, TextBlock>>
  /\ pt_content.some
  /\ pt_content.val[2] = "ImageContent"

\* C22: the tool descriptors of a completion request in flight are as many as
\* the native tools list_tools returned and in their order, each is a function
\* descriptor with the name of its native tool, and the parameter schema of each
\* has additionalProperties false and no other value for that key, whether the
\* native schema was absent or set the key itself.
C22_ToolDescriptorsOneToOne ==
  pc = "completion" =>
    /\ Len(request.val.tools) = Len(NativeTools)
    /\ \A i \in 1..Len(NativeTools) :
         LET f == request.val.tools[i].function
         IN  /\ request.val.tools[i].type = "function"
             /\ f.name = NativeTools[i].name
             /\ <<"additionalProperties", "false">> \in f.parameters
             /\ \A p \in f.parameters : p[1] = "additionalProperties" => p[2] = "false"

\* A request is in flight for native tools of which one sets additionalProperties
\* to true and one has no schema.
C22_Witness ==
  /\ pc = "completion"
  /\ \E i \in 1..Len(NativeTools) :
       /\ NativeTools[i].inputSchema.some
       /\ <<"additionalProperties", "true">> \in NativeTools[i].inputSchema.val
       /\ <<"additionalProperties", "true">> \notin request.val.tools[i].function.parameters
  /\ \E i \in 1..Len(NativeTools) :
       /\ ~NativeTools[i].inputSchema.some
       /\ request.val.tools[i].function.parameters = {<<"additionalProperties", "false">>}

\* C23: after a call of get_messages() the history is the sequence it was before
\* the call, and what the call returned has one record per message of that
\* sequence, the i-th being the chat message of the i-th message.
C23_SnapshotInOrderNoEffect ==
  mh_last.op = "get_messages" =>
    /\ mh_messages = mh_last.before
    /\ Len(mh_last.returned) = Len(mh_last.before)
    /\ \A i \in 1..Len(mh_last.before) :
         mh_last.returned[i] = mh_last.before[i].chat_completion_message_param

\* get_messages() was called on a history of four messages of the four roles.
C23_Witness ==
  /\ mh_last.op = "get_messages"
  /\ Len(mh_messages) = 4
  /\ mh_last.returned[1].role = "system"
  /\ mh_last.returned[2].role = "user"
  /\ mh_last.returned[3].role = "assistant"
  /\ mh_last.returned[4].role = "tool"

\* The arguments of a tool call of the model as the dict they denote, or none.
DenotedDict(call) ==
  IF call.function.arguments = <<"{", "\"path\"", ":", "\".\"", "}">>
  THEN Some(<< <<"\"path\"", <<"\".\"">> >> >>)
  ELSE IF call.function.arguments = <<"{", "}">> THEN Some(<<>>) ELSE None

\* C24: create_message_data for an assistant response whose tool calls all have
\* arguments denoting a dict returns an event with the response's text and one
\* summary per tool call, in order, with its name, its id and the dict; when a
\* tool call's arguments denote no dict it raises and returns no event, so no
\* invocation and no arguments are left out silently.
C24_ProjectionOneToOneOrRaises ==
  pj_result.some =>
    LET calls == OrEmpty(pj_response.val.tool_calls)
        res == pj_result.val
    IN  IF \A i \in 1..Len(calls) : DenotedDict(calls[i]).some
        THEN /\ ~res.raised
             /\ res.data.type = "AssistantMessageData"
             /\ res.data.message = pj_response.val.content
             /\ Len(res.data.tool_calls) = Len(calls)
             /\ \A i \in 1..Len(calls) :
                  /\ res.data.tool_calls[i].name = calls[i].function.name
                  /\ res.data.tool_calls[i].id = calls[i].id
                  /\ res.data.tool_calls[i].args = DenotedDict(calls[i]).val
        ELSE /\ res.raised
             /\ res.error \in {"JSONDecodeError", "ValidationError"}
             /\ res.data = <<>>

\* The projection has raised for a response whose first tool call is sound and
\* whose second has unfinished arguments.
C24_Witness ==
  /\ pj_result.some
  /\ pj_response.val.tool_calls = Some(<<CallView, CallBadArgs>>)
  /\ pj_result.val.raised
  /\ pj_result.val.error = "JSONDecodeError"

\* The last completion response of the turn had neither text nor tool calls.
EmptyResponse ==
  /\ last_raw.some
  /\ last_raw.val \in {None, Some(<<>>)}
  /\ LastAssistant > 0
  /\ CallsOf(LastAssistant) = <<>>

\* C25: a completion response with neither text nor tool invocations makes
\* turn() raise nothing: its message is the last of the history, its Assistant
\* Event, with the absent or empty text and an empty list of tool calls, is the
\* last event, no further request is issued, and when the consumer asks for the
\* next event the turn ends normally without appending or yielding anything.
C25_EmptyResponseTolerated ==
  /\ [](EmptyResponse =>
          /\ outcome.status \in {"running", "returned", "cancelled"}
          /\ pc \in {"yield_assistant", "idle"}
          /\ pc = "yield_assistant" => outcome.status = "running"
          /\ Len(history) = LastAssistant
          /\ Param(LastAssistant).content = last_raw.val
          /\ Len(events) = EventPos(LastAssistant)
          /\ events[Len(events)].type = "AssistantMessageData"
          /\ events[Len(events)].message = last_raw.val
          /\ events[Len(events)].tool_calls = <<>>)
  /\ [][(EmptyResponse /\ pc = "yield_assistant" /\ outcome'.status # "cancelled")
          => /\ pc' = "idle"
             /\ outcome' = ReturnedNormally
             /\ history' = history
             /\ events' = events]_vars

\* The second response of a turn had neither text nor tool calls and the turn
\* has ended normally.
C25_Witness ==
  /\ EmptyResponse
  /\ last_raw.val = None
  /\ completions = 2
  /\ pc = "idle"
  /\ outcome = ReturnedNormally

\* C26: the messages of a history, each created after an awaited call or a user
\* input that followed the creation of the one before it, and so at different
\* clock values, carry pairwise different timestamps and pairwise different
\* identifiers.
C26_TimestampedAndIdentified ==
  \A i, j \in 1..Len(history) :
    i # j => /\ history[i].message_id # history[j].message_id
             /\ history[i].timestamp # history[j].timestamp

\* C27: the histories of two agents are two list objects; every message of an
\* agent's history was made by that agent; and a step of one agent leaves the
\* history of the other agent as it was.
C27_NoSharedHistory ==
  /\ [](\A a \in Agents : tw_ref[a] # "" =>
          /\ \A b \in Agents \ {a} : tw_ref[b] # tw_ref[a]
          /\ \A i \in 1..Len(HistoryOf(a)) : HistoryOf(a)[i].message_id[1] = a)
  /\ [][\A b \in Agents :
          (tw_actor' # b /\ tw_ref[b] # "") =>
            /\ tw_ref'[b] = tw_ref[b]
            /\ tw_lists'[tw_ref[b]] = tw_lists[tw_ref[b]]]_vars

\* Both agents have appended to their histories, in alternation.
C27_Witness ==
  /\ \A a \in Agents : tw_ref[a] # "" /\ Len(HistoryOf(a)) = 3
  /\ HistoryOf("agent1")[2].chat_completion_message_param.role = "user"
  /\ HistoryOf("agent2")[2].chat_completion_message_param.role = "user"
  /\ tw_actor = "agent1"

\* The last step was a call of an editing tool.
EditCalled == fs_last.tool \in {"insert", "str_replace", "create"}

\* The path the last call was given lies outside the configured root once its
\* ".." and links are followed.
TargetOutsideRoot ==
  ~RelativeTo(Resolve(IF fs_last.path.abs THEN fs_last.path.parts
                      ELSE RootDir \o fs_last.path.parts), RootDir)

\* The last call left every file and directory as it was and made none.
FsUnchanged ==
  /\ fs_files = fs_last.before.files
  /\ fs_dirs = fs_last.before.dirs

\* C28: insert, str_replace and create never change anything outside the
\* configured root: whatever was called, the files and directories outside the
\* root are those of the start; a call with a path, absolute or relative, that
\* resolves outside the root returns "Path must be within the configured root
\* directory" and changes and creates nothing; with no root configured every
\* call returns an error and changes nothing.
C28_EditsStayInRoot ==
  /\ {e \in fs_files : ~RelativeTo(e[1], RootDir)} = {OutsideFile}
  /\ {d \in fs_dirs : ~RelativeTo(d, RootDir)} = {LinkTarget}
  /\ EditCalled /\ fs_root.some /\ TargetOutsideRoot =>
       /\ fs_last.result.error
       /\ fs_last.result.message
            = "Error: Path must be within the configured root directory: {path}"
       /\ FsUnchanged
  /\ EditCalled /\ ~fs_root.some =>
       /\ fs_last.result.error
       /\ FsUnchanged

\* A tool that has written inside the root is then called with a path that
\* leaves the root through the link, and refuses.
C28_Witness ==
  /\ EditCalled
  /\ fs_root.some
  /\ fs_last.path.parts = <<"link", "o.txt">>
  /\ fs_last.result.message
       = "Error: Path must be within the configured root directory: {path}"
  /\ \E e \in fs_files : e[1] = <<"work", "sub", "n.txt">>

\* The file the last call names, with its ".." and links followed.
LastTarget ==
  Resolve(IF fs_last.path.abs THEN fs_last.path.parts
          ELSE RootDir \o fs_last.path.parts)

\* C29: str_replace with a root configured and a path inside it: when the file
\* does not exist, when old_str does not occur in it, or when replace_all is
\* false and old_str occurs more than once, an error is returned and no file is
\* changed or created; with exactly one occurrence the file holds the text with
\* that occurrence replaced; with replace_all true and at least one occurrence
\* the file holds the text with every occurrence replaced and the result
\* reports a count equal to the number of occurrences.
C29_StrReplaceUnambiguous ==
  fs_last.tool = "str_replace" /\ fs_root.some /\ ~TargetOutsideRoot =>
    LET before == fs_last.before
        old_str == fs_last.args.old_str
        new_str == fs_last.args.new_str
        replace_all == fs_last.args.replace_all
        occurrences == Count(ReadText(before, LastTarget), old_str)
    IN  IF ~IsFile(before, LastTarget)
        THEN fs_last.result.error /\ FsUnchanged
        ELSE /\ occurrences = 0 \/ (~replace_all /\ occurrences > 1) =>
                  fs_last.result.error /\ FsUnchanged
             /\ occurrences = 1 =>
                  ReadText(FsNow, LastTarget)
                    = Replace(ReadText(before, LastTarget), old_str, new_str, 1)
             /\ replace_all /\ occurrences >= 1 =>
                  /\ ReadText(FsNow, LastTarget)
                       = Replace(ReadText(before, LastTarget), old_str, new_str, -1)
                  /\ ~fs_last.result.error
                  /\ fs_last.result.number = Some(occurrences)

\* C30 as stated: create with a root configured and a path inside it returns
\* an error and changes nothing when the path is an existing file or a
\* directory, and otherwise creates the file with exactly the given text and
\* makes its missing parent directories; create never changes the text of a
\* file that existed before the call.
C30_CreateElseCreates ==
  fs_last.tool = "create" =>
    /\ \A e \in fs_last.before.files : e \in fs_files
    /\ fs_root.some /\ ~TargetOutsideRoot =>
         IF Exists(fs_last.before, LastTarget)
         THEN fs_last.result.error /\ FsUnchanged
         ELSE /\ ~fs_last.result.error
              /\ fs_files = fs_last.before.files
                              \union {<<LastTarget, fs_last.args.file_text>>}
              /\ fs_dirs = fs_last.before.dirs \union ParentsOf(LastTarget)

\* C30, amended: as above, but a path with a part of its parent path being a
\* file is refused as well: create returns an error and changes nothing when
\* the path is an existing file or a directory or lies under a file, and
\* creates the file with exactly the given text, making its missing parent
\* directories and leaving every other file, otherwise.  Whatever the path and
\* the root, create leaves the text of every file that existed before the
\* call, so over create calls the first successful create on a path decides.
C30_CreateNeverOverwrites ==
  fs_last.tool = "create" =>
    /\ \A e \in fs_last.before.files : e \in fs_files
    /\ fs_root.some /\ ~TargetOutsideRoot =>
         IF \/ Exists(fs_last.before, LastTarget)
            \/ MkdirParentsRaises(fs_last.before, LastTarget)
         THEN fs_last.result.error /\ FsUnchanged
         ELSE /\ ~fs_last.result.error
              /\ fs_files = fs_last.before.files
                              \union {<<LastTarget, fs_last.args.file_text>>}
              /\ fs_dirs = fs_last.before.dirs \union ParentsOf(LastTarget)

\* A second create on a path that the first create made, parent directory
\* included, with another text: it is refused and the first text stays.
C30_Witness ==
  /\ fs_last.tool = "create"
  /\ LastTarget = <<"work", "new", "n.txt">>
  /\ fs_last.result.message = "Error: File already exists at {path}"
  /\ <<"work", "new">> \in fs_dirs
  /\ \E e \in fs_files : e[1] = LastTarget /\ e[2] # fs_last.args.file_text

\* C31: insert with a root configured and a path inside it: on a path that is
\* no file, or with a negative insert_line, an error is returned and no file is
\* changed or created; otherwise, L being the lines of the file before the call
\* and n the smaller of insert_line and the number of those lines, the lines of
\* the file afterwards are L[1..n], new_str, L[n+1..], every original line kept
\* in its order, the result reports line n, and no other file is touched.
C31_InsertKeepsLines ==
  fs_last.tool = "insert" /\ fs_root.some /\ ~TargetOutsideRoot =>
    IF ~IsFile(fs_last.before, LastTarget) \/ fs_last.args.insert_line < 0
    THEN fs_last.result.error /\ FsUnchanged
    ELSE LET L == Splitlines(ReadText(fs_last.before, LastTarget))
             n == IF fs_last.args.insert_line > Len(L) THEN Len(L)
                  ELSE fs_last.args.insert_line
         IN  /\ Splitlines(ReadText(FsNow, LastTarget))
                  = SubSeq(L, 1, n) \o <<fs_last.args.new_str>>
                      \o SubSeq(L, n + 1, Len(L))
             /\ ~fs_last.result.error
             /\ fs_last.result.number = Some(n)
             /\ {e \in fs_files : e[1] # LastTarget}
                  = {e \in fs_last.before.files : e[1] # LastTarget}
             /\ fs_dirs = fs_last.before.dirs

\* C32: view of a file with a range (start, end): the result is exactly the
\* lines numbered max(1, start) through end, through the last line when end is
\* -1 or beyond the last line, each with its number in the file counted from 1
\* (so a start of 0 or below shows the file from its first line), and no file or
\* directory is changed.
C32_ViewRange ==
  /\ fs_last.tool = "view" => FsUnchanged
  /\ (/\ fs_last.tool = "view"
      /\ fs_last.args.view_range.some
      /\ IsFile(fs_last.before, ResolvePathOrCwd(fs_root, fs_last.path))) =>
       LET L == Splitlines(ReadText(fs_last.before,
                                    ResolvePathOrCwd(fs_root, fs_last.path)))
           start == fs_last.args.view_range.val[1]
           end == fs_last.args.view_range.val[2]
           first == IF start > 1 THEN start ELSE 1
           last == IF end = -1 \/ end > Len(L) THEN Len(L) ELSE end
       IN  /\ ~fs_last.result.error
           /\ fs_last.result.context
                = [i \in 1..(IF last >= first THEN last - first + 1 ELSE 0) |->
                     <<first + i - 1, L[first + i - 1]>>]

\* Indices in history of the assistant messages of all turns.
AllAssistants == {i \in 1..Len(history) : Param(i).role = "assistant"}

\* The tool results with the given id that answer the assistant message at
\* index i: those after it and before the next assistant message.
ResultsFor(i, id) ==
  {m \in (i + 1)..Len(history) :
     /\ Param(m).role = "tool"
     /\ Param(m).tool_call_id = id
     /\ \A n \in (i + 1)..m : Param(n).role # "assistant"}

\* C33: whenever a completion request is in flight, in whatever turn on this
\* agent and however the earlier turns ended, every tool invocation requested by
\* an assistant message of the history has exactly one tool result with its id
\* after that message.
C33_NoDanglingCallAcrossTurns ==
  pc = "completion" =>
    \A i \in AllAssistants :
      \A j \in 1..Len(CallsOf(i)) :
        Cardinality(ResultsFor(i, CallsOf(i)[j].id)) = 1

\* The tool event that the front end has just handled, if it has.
ToolEventHandled ==
  pc = "yield_tool" /\ cl_at = Len(history)

\* C37: when the terminal front end has handled a tool event, the tool-call
\* cache holds the call with the event's id, as the preceding assistant event
\* brought it, and the tool's name was displayed with the arguments of that call.
C37_ToolShownFromCachedCall ==
  ToolEventHandled =>
    LET event == ConvertDataToEvent(events[Len(events)])
        tool_call == CacheGet(cl_cache, event.id)
    IN  /\ tool_call.some
        /\ \E k \in 1..Len(CallsOf(LastAssistant)) :
             /\ CallsOf(LastAssistant)[k].id = event.id
             /\ tool_call.val.name = CallsOf(LastAssistant)[k].function.name
        /\ cl_raised = ""
        /\ cl_shown = [kind |-> "tool", name |-> event.name,
                       args |-> FormatToolArguments(tool_call.val.args, 50)]

\* A list_tools call is among the awaited calls.
ListToolsAwaited(calls) == \E k \in 1..Len(calls) : calls[k] = ListToolsCall

C35_Step ==
  /\ (pc = "idle" /\ pc' # "idle") =>
       /\ pc' = "list_tools"
       /\ outstanding' = <<ListToolsCall>>
       /\ history' = history
       /\ events' = <<>>
       /\ completions' = 0
       /\ ~request'.some
  /\ pc # "idle" => ~ListToolsAwaited(outstanding')
  /\ (pc = "list_tools" /\ outcome'.status = "raised") =>
       /\ pc' = "idle"
       /\ history' = history
       /\ events' = <<>>
       /\ completions' = 0
  /\ (pc = "list_tools" /\ outcome'.status \in {"running", "returned"}) =>
       /\ Len(history') = Len(history) + 1
       /\ SubSeq(history', 1, Len(history)) = history
       /\ history'[Len(history')].chat_completion_message_param.role = "user"
       /\ completions' = (IF pc' = "completion" THEN 1 ELSE 0)
       /\ events' = <<>>
  /\ history' # history => pc # "idle" /\ ~ListToolsAwaited(outstanding')

\* C35: a turn starts with its one list_tools call, issued before the user
\* message is appended and before any completion request, and no other step of
\* the turn calls list_tools; when the call fails, turn() raises with no event
\* emitted and the history as it was before the call; when it returns, the user
\* message is appended and the first completion request follows.
C35_ListToolsOnceFirst == [][C35_Step]_vars

\* list_tools failed in a turn on an agent that already holds an earlier turn.
C35_Witness ==
  /\ pc = "idle"
  /\ outcome = RaisedError("list_tools")
  /\ events = <<>>
  /\ Len(history) >= 3

\* The event is the projection of the history message with these parameters.
EventMatches(event, param) ==
  IF param.role = "assistant"
  THEN /\ event.type = "AssistantMessageData"
       /\ event.message = param.content
       /\ Len(event.tool_calls) = Len(OrEmpty(param.tool_calls))
       /\ \A j \in 1..Len(event.tool_calls) :
            /\ event.tool_calls[j].id = OrEmpty(param.tool_calls)[j].id
            /\ event.tool_calls[j].name = OrEmpty(param.tool_calls)[j].function.name
  ELSE /\ param.role = "tool"
       /\ event.type = "ToolMessageData"
       /\ event.id = param.tool_call_id
       /\ event.content = param.content

\* The tool invocations requested by the assistant messages at the indices in S.
RECURSIVE CallsRequested(_)
CallsRequested(S) ==
  IF S = {} THEN 0
  ELSE LET i == CHOOSE k \in S : TRUE
       IN  Len(CallsOf(i)) + CallsRequested(S \ {i})

\* C36: the events of a turn are, one to one and in order, the projections of
\* the assistant and tool messages appended after the turn's user message; an
\* event just yielded is that of the newest message of the history; and a turn
\* that returned normally after c completion responses requesting t tool
\* invocations has appended 1 + c + t messages and emitted c + t events.
C36_EventsMirrorAppends ==
  /\ turn_start > 0 =>
       /\ Len(events) <= Len(history) - turn_start
       /\ \A k \in 1..Len(events) : EventMatches(events[k], Param(turn_start + k))
  /\ pc \in {"yield_assistant", "yield_tool"} =>
       Len(events) = Len(history) - turn_start
  /\ (pc = "idle" /\ outcome = ReturnedNormally) =>
       /\ Cardinality(TurnAssistants) = completions
       /\ Len(history) - (turn_start - 1) = 1 + completions + CallsRequested(TurnAssistants)
       /\ Len(events) = completions + CallsRequested(TurnAssistants)
       /\ Param(turn_start).role = "user"
       /\ \A i \in TurnAssistants : HasItsResults(i)

\* A turn has returned normally after two responses, the first with two tool
\* invocations: five messages appended, four events.
C36_Witness ==
  /\ pc = "idle"
  /\ outcome = ReturnedNormally
  /\ completions = 2
  /\ CallsRequested(TurnAssistants) = 2
  /\ Len(events) = 4

\* The messages of a completion request hold an assistant tool invocation with
\* no tool result after it.
DanglingIn(messages) ==
  \E i \in 1..Len(messages) :
    /\ messages[i].role = "assistant"
    /\ \E c \in 1..Len(OrEmpty(messages[i].tool_calls)) :
         ~\E j \in (i + 1)..Len(messages) :
            /\ messages[j].role = "tool"
            /\ messages[j].tool_call_id = OrEmpty(messages[i].tool_calls)[c].id

\* The messages of a completion request hold a user message between an
\* assistant message and the tool result of one of its invocations.
InterleavedIn(messages) ==
  \E i \in 1..Len(messages) :
    /\ messages[i].role = "assistant"
    /\ \E c \in 1..Len(OrEmpty(messages[i].tool_calls)) :
         \E j \in (i + 1)..Len(messages) :
            /\ messages[j].role = "tool"
            /\ messages[j].tool_call_id = OrEmpty(messages[i].tool_calls)[c].id
            /\ \E k \in (i + 1)..(j - 1) : messages[k].role = "user"

\* The first call is suspended at an awaited call or at a yielded event.
FirstSuspended ==
  pc \in {"list_tools", "completion", "yield_assistant", "tool", "yield_tool"}

\* C34: turn() has no reentrancy guard.  While the first call is suspended a
\* second call on the same agent can be started, and once started it can take
\* its next step (append the user message and issue its completion request,
\* take a response, run a tool) without waiting for the first call to end.
C34_NoReentrancyGuard ==
  FirstSuspended =>
    /\ sc_pc = "idle" => ENABLED SecondStartTurn
    /\ sc_pc = "list_tools" => ENABLED SecondListToolsReturn
    /\ sc_pc = "completion" => ENABLED (\E r \in SecondResponses : SecondCompletionReturn(r))
    /\ sc_pc = "yield_assistant" => ENABLED SecondResumeAfterAssistant
    /\ sc_pc = "tool" => ENABLED (\E o \in SecondToolOutcomes : SecondToolReturn(o))
    /\ sc_pc = "yield_tool" => ENABLED SecondResumeAfterTool

\* Both calls have a completion request in flight: that of the second call
\* holds the first call's tool invocation without its result, and the later
\* one of the first call holds the second call's user message between that
\* invocation and its result.
C34_Witness ==
  /\ pc = "completion"
  /\ sc_pc = "completion"
  /\ DanglingIn(sc_request.val.messages)
  /\ InterleavedIn(request.val.messages)

\* Every field the text of the file gives has that value in the configuration.
StoredIn(doc, config) ==
  \A i \in 1..Len(doc) :
    /\ doc[i].key = "version" => config.version = doc[i].value
    /\ doc[i].key = "max_steps" => config.agent_config.max_steps = IntOf(doc[i].value)
    /\ doc[i].key = "number_tool_lines" =>
         config.ux_config.number_tool_lines = IntOf(doc[i].value)

\* C38: load_config returns a configuration of the current version.  A missing,
\* empty or invalid file, or one of another version, is overwritten with the
\* default configuration, which is returned; a valid file of the current
\* version is returned with the values it stores and is left as it is.
C38_LoadConfigResets ==
  cf_last.op = "load" =>
    LET before == cf_last.before
        returned == cf_last.returned
    IN  /\ returned.version = "0.1.0"
        /\ (\/ ~before.some
            \/ before.val \in EmptyDocs \union InvalidDocs \union OtherVersionDocs) =>
             /\ returned = CLIConfigDefault
             /\ cf_file = Some(SafeDump(CLIConfigDefault))
        /\ (before.some /\ before.val \in ValidDocs) =>
             /\ cf_file = before
             /\ StoredIn(before.val, returned)

\* A file of an older version was loaded and has been reset.
C38_Witness ==
  /\ cf_last.op = "load"
  /\ cf_last.before = Some(DocOldVersion)
  /\ cf_last.returned = CLIConfigDefault
  /\ cf_file = Some(SafeDump(CLIConfigDefault))

====
